---- MODULE Spec2Model ----
(***************************************************************************)
(* A model of the insight memory system of src/insight_system_simple.py:   *)
(* the ConnectionPool (get_connection and its release path), the insights  *)
(* table with its text encodings, entity lookup and contextual retrieval.  *)
(*                                                                         *)
(* Text is modelled as a sequence of one-character strings, so that join,  *)
(* strip, split, lower and LIKE are computed character by character.       *)
(***************************************************************************)
EXTENDS Integers, Sequences, FiniteSets, TLC

\* ------------------------------------------------------------------ bounds

\* pool_size argument of ConnectionPool (the code's default is 5).
pool_size == 1

\* Threads that call the system in parallel (more than the burst cap
\* 2 * pool_size).
NumCallers == 3

\* ------------------------------------------------------------------ state

VARIABLES
    created_connections,  \* ConnectionPool._created_connections
    pool,                 \* ConnectionPool._pool: the Queue of idle connections
    lock,                 \* ConnectionPool._lock: the process holding it, or NoProc
    connState,            \* each sqlite3.Connection object: open / closed / dropped
    inTransaction,        \* each connection: an uncommitted transaction is open
    pc,                   \* each process's position in get_connection
    kind,                 \* what each process's with-block does
    conn,                 \* get_connection's local conn of each process (0: None)
    result,               \* how each process's call ended
    table,                \* the rows of the insights table, in rowid order
    latest,               \* history: the Insight last passed to add_insight, per id
    out,                  \* the last call of the sequential system: what was
                          \* called, with what, and what it returned
    conversation_history,    \* ConversationFlow.conversation_history: the
                             \* speaker of each entry
    active_entities,         \* ConversationFlow.active_entities
    last_insights_surfaced   \* ConversationFlow.last_insights_surfaced

poolVars == <<created_connections, pool, lock, connState, inTransaction,
              pc, kind, conn, result>>
chatVars == <<conversation_history, active_entities, last_insights_surfaced>>
vars == <<created_connections, pool, lock, connState, inTransaction,
          pc, kind, conn, result, table, latest, out,
          conversation_history, active_entities, last_insights_surfaced>>

\* ------------------------------------------------------------------- text

UpperCase == <<"A","B","C","D","E","F","G","H","I","J","K","L","M",
               "N","O","P","Q","R","S","T","U","V","W","X","Y","Z">>
LowerCase == <<"a","b","c","d","e","f","g","h","i","j","k","l","m",
               "n","o","p","q","r","s","t","u","v","w","x","y","z">>

\* The characters of the model's texts, in code-point order.
CharOrder == <<" ", "%", "'", ",", "-", ".">> \o <<"0", "1", "2", "3", "4", "5", "6", "7", "8", "9">>
             \o <<"?">> \o UpperCase \o <<"_">> \o LowerCase
Chars == {CharOrder[k] : k \in DOMAIN CharOrder}

\* str.lower() on each character, tabulated.
LowerTable ==
    [ch \in Chars |->
        IF \E k \in 1..26 : UpperCase[k] = ch
        THEN LowerCase[CHOOSE k \in 1..26 : UpperCase[k] = ch]
        ELSE ch]

\* str.lower() on one character.
LowerChar(ch) == LowerTable[ch]

\* str.lower()
Lower(s) == [i \in 1..Len(s) |-> LowerChar(s[i])]

\* Python's `sub in s` on strings.
Contains(s, sub) ==
    \E i \in 0..(Len(s) - Len(sub)) :
        \A j \in 1..Len(sub) : s[i + j] = sub[j]

\* sep.join(parts)
RECURSIVE Join(_, _)
Join(parts, sep) ==
    IF parts = <<>> THEN <<>>
    ELSE IF Len(parts) = 1 THEN parts[1]
    ELSE parts[1] \o sep \o Join(Tail(parts), sep)

\* s.lstrip(ch), s.rstrip(ch), s.strip(ch) for a one-character ch
RECURSIVE LStrip(_, _)
LStrip(s, ch) ==
    IF s # <<>> /\ s[1] = ch THEN LStrip(Tail(s), ch) ELSE s

RECURSIVE RStrip(_, _)
RStrip(s, ch) ==
    IF s # <<>> /\ s[Len(s)] = ch THEN RStrip(SubSeq(s, 1, Len(s) - 1), ch) ELSE s

Strip(s, ch) == RStrip(LStrip(s, ch), ch)

\* s.split(ch): the fields between the separators, empty fields included.
RECURSIVE Split(_, _)
Split(s, ch) ==
    IF \E i \in 1..Len(s) : s[i] = ch
    THEN LET k == CHOOSE i \in 1..Len(s) :
                      s[i] = ch /\ \A j \in 1..(i - 1) : s[j] # ch
         IN  <<SubSeq(s, 1, k - 1)>> \o Split(SubSeq(s, k + 1, Len(s)), ch)
    ELSE <<s>>

Range(f) == {f[i] : i \in DOMAIN f}

\* The orders in which iterating a Python set can yield its elements.
Orders(S) == {f \in [1..Cardinality(S) -> S] : Range(f) = S}

\* Python's None, for Optional[str] fields and the NULL of a TEXT column.
None == <<"None">>

\* SQLite's LIKE: % matches any run of characters, _ any one character, and
\* any other pattern character matches itself ignoring ASCII case.
RECURSIVE Like(_, _)
Like(txt, pat) ==
    IF pat = <<>> THEN txt = <<>>
    ELSE IF pat[1] = "%"
         THEN Like(txt, Tail(pat)) \/ (txt # <<>> /\ Like(Tail(txt), pat))
    ELSE IF txt = <<>> THEN FALSE
    ELSE IF pat[1] = "_" THEN Like(Tail(txt), Tail(pat))
    ELSE LowerChar(pat[1]) = LowerChar(txt[1]) /\ Like(Tail(txt), Tail(pat))

\* Binary collation of two TEXT values: -1, 0 or 1.
RankTable == [ch \in Chars |-> CHOOSE k \in 1..Len(CharOrder) : CharOrder[k] = ch]
CharRank(ch) == RankTable[ch]

RECURSIVE TextCompare(_, _)
TextCompare(a, b) ==
    IF a = <<>> /\ b = <<>> THEN 0
    ELSE IF a = <<>> THEN -1
    ELSE IF b = <<>> THEN 1
    ELSE IF CharRank(a[1]) < CharRank(b[1]) THEN -1
    ELSE IF CharRank(a[1]) > CharRank(b[1]) THEN 1
    ELSE TextCompare(Tail(a), Tail(b))

\* -------------------------------------------------------------- datetime

\* A datetime is [day, frac]: whole days since the epoch of the model and the
\* sub-second part.  isoformat() writes fixed-width zero-padded fields and
\* leaves the fraction out when it is zero; fromisoformat() reads both forms.
Digits == <<"0", "1", "2", "3", "4", "5", "6", "7", "8", "9">>
DigitChar(n) == Digits[n + 1]
DigitValue(ch) == (CHOOSE k \in 1..10 : Digits[k] = ch) - 1

isoformat(ts) ==
    <<DigitChar(ts.day \div 100), DigitChar((ts.day \div 10) % 10), DigitChar(ts.day % 10)>>
    \o (IF ts.frac = 0 THEN <<>> ELSE <<".", DigitChar(ts.frac)>>)

fromisoformat(s) ==
    [day  |-> DigitValue(s[1]) * 100 + DigitValue(s[2]) * 10 + DigitValue(s[3]),
     frac |-> IF Len(s) > 3 THEN DigitValue(s[5]) ELSE 0]

\* ------------------------------------------------- the insights table

\* The encoding without the enclosing delimiters: ','.join(tokens).
EncodeTokensBare(order) == Join(order, <<",">>)

\* add_insight's encoding of a collection of tokens, given the order in which
\* the collection is iterated: ',' + ','.join(tokens) + ',' or '' when empty.
EncodeTokens(order) ==
    IF order = <<>> THEN <<>> ELSE <<",">> \o Join(order, <<",">>) \o <<",">>

\* The tuple add_insight binds to INSERT OR REPLACE; eOrder and tOrder are the
\* iteration orders of the entities and themes sets.
RowOf(insight, eOrder, tOrder) ==
    [id                  |-> insight.id,
     content             |-> insight.content,
     entities            |-> EncodeTokens(eOrder),
     themes              |-> EncodeTokens(tOrder),
     timestamp           |-> isoformat(insight.timestamp),
     effectiveness_score |-> insight.effectiveness_score,
     growth_stage        |-> insight.growth_stage,
     layer               |-> insight.layer,
     insight_type        |-> insight.insight_type,
     supersedes          |-> EncodeTokens(insight.supersedes),
     superseded_by       |-> insight.superseded_by,
     source_file         |-> insight.source_file,
     context             |-> insight.context]

\* A schema initialisation that creates the table anew.
CreateTableAnew(tbl) == <<>>

\* CREATE TABLE IF NOT EXISTS insights / CREATE INDEX IF NOT EXISTS, commit:
\* an existing table keeps its rows.
CreateTableIfNotExists(tbl) == tbl

\* INSERT without the OR REPLACE conflict clause on a table with no key.
InsertKeepingOld(tbl, row) == Append(tbl, row)

\* INSERT OR REPLACE INTO insights: id is the PRIMARY KEY, so a row with the
\* same id is deleted and the new row is added at the end of the table.
InsertOrReplace(tbl, row) ==
    SelectSeq(tbl, LAMBDA r : r.id # row.id) \o <<row>>

\* The parsing without the strip: text.split(',').
DecodeListNoStrip(text) ==
    IF text = None \/ text = <<>> THEN <<>> ELSE Split(text, ",")

\* _get_insights_by_entity's parsing of a token column.
DecodeList(text) ==
    LET raw == IF text = None \/ text = <<>> THEN <<>> ELSE Strip(text, ",")
    IN  IF raw = <<>> THEN <<>> ELSE Split(raw, ",")

DecodeSet(text) == Range(DecodeList(text))

\* The Insight that _get_insights_by_entity builds from a row.
InsightOfRow(row) ==
    [id                  |-> row.id,
     content             |-> row.content,
     entities            |-> DecodeSet(row.entities),
     themes              |-> DecodeSet(row.themes),
     timestamp           |-> fromisoformat(row.timestamp),
     effectiveness_score |-> row.effectiveness_score,
     growth_stage        |-> row.growth_stage,
     layer               |-> row.layer,
     insight_type        |-> row.insight_type,
     supersedes          |-> DecodeList(row.supersedes),
     superseded_by       |-> row.superseded_by,
     source_file         |-> row.source_file,
     context             |-> row.context]

\* ORDER BY effectiveness_score DESC, timestamp DESC; timestamp is TEXT.
RowBefore(a, b) ==
    \/ a.effectiveness_score > b.effectiveness_score
    \/ /\ a.effectiveness_score = b.effectiveness_score
       /\ TextCompare(a.timestamp, b.timestamp) = 1

RECURSIVE InsertRow(_, _)
InsertRow(sorted, r) ==
    IF sorted = <<>> THEN <<r>>
    ELSE IF RowBefore(r, sorted[1]) THEN <<r>> \o sorted
    ELSE <<sorted[1]>> \o InsertRow(Tail(sorted), r)

\* Rows that compare equal stay in rowid order.
RECURSIVE OrderRows(_)
OrderRows(rows) ==
    IF rows = <<>> THEN <<>>
    ELSE InsertRow(OrderRows(SubSeq(rows, 1, Len(rows) - 1)), rows[Len(rows)])

\* The pattern bound to WHERE entities LIKE ?
EntityPattern(entity) == <<"%", ",">> \o entity \o <<",", "%">>

\* The rows the SELECT of _get_insights_by_entity returns.
SelectByEntity(tbl, entity) ==
    OrderRows(SelectSeq(tbl, LAMBDA r :
        r.entities # None /\ Like(r.entities, EntityPattern(entity))))

\* _get_insights_by_entity
GetInsightsByEntity(tbl, entity) ==
    LET rows == SelectByEntity(tbl, entity)
    IN  [k \in 1..Len(rows) |-> InsightOfRow(rows[k])]

\* ------------------------------------------------------ trigger detection

\* The SemanticTrigger objects built by _initialize_triggers.
Trigger_partner_A ==
    [entity |-> <<"p","a","r","t","n","e","r","_","A">>,
     keywords |-> {
         <<"t","r","u","s","t">>,
         <<"r","e","l","a","t","i","o","n","s","h","i","p">>,
         <<"t","r","u","s","t","w","o","r","t","h","y">>,
         <<"l","u","c","k","y">>,
         <<"w","o","r","d"," ","i","s"," ","e","n","o","u","g","h">>,
         <<"p","a","r","t","n","e","r">>,
         <<"h","u","s","b","a","n","d">>,
         <<"A">>},
     max_surface_insights |-> 3]

Trigger_child_N ==
    [entity |-> <<"c","h","i","l","d","_","N">>,
     keywords |-> {
         <<"b","o","u","n","d","a","r","i","e","s">>,
         <<"p","a","r","e","n","t","i","n","g">>,
         <<"s","c","h","o","o","l">>,
         <<"h","y","g","i","e","n","e">>,
         <<"a","n","g","e","r">>,
         <<"y","e","l","l","s">>,
         <<"s","w","e","a","r","s">>,
         <<"f","i","g","h","t","s">>,
         <<"s","i","l","e","n","c","e">>,
         <<"p","r","o","t","e","c","t","i","v","e"," ","s","i","l","e","n","c","e">>,
         <<"l","o","y","a","l","t","y">>,
         <<"N">>,
         <<"s","o","n">>,
         <<"c","h","i","l","d">>,
         <<"k","i","d">>},
     max_surface_insights |-> 3]

Trigger_ex_X ==
    [entity |-> <<"e","x","_","X">>,
     keywords |-> {
         <<"v","o","i","c","e">>,
         <<"t","r","a","u","m","a">>,
         <<"i","n","a","d","e","q","u","a","c","y">>,
         <<"s","c","a","n","n","i","n","g">>,
         <<"c","o","n","t","a","c","t">>,
         <<"c","h","a","r","m","i","n","g">>,
         <<"r","e","a","s","o","n","a","b","l","e">>,
         <<"b","e","s","t"," ","b","e","h","a","v","i","o","r">>,
         <<"p","e","r","f","o","r","m","a","n","c","e">>,
         <<"g","o","o","d"," ","d","a","d">>,
         <<"c","a","s","e">>,
         <<"a","b","s","e","n","t"," ","p","a","r","e","n","t">>,
         <<"X">>,
         <<"e","x">>},
     max_surface_insights |-> 3]

Trigger_self_beck ==
    [entity |-> <<"s","e","l","f","_","b","e","c","k">>,
     keywords |-> {
         <<"s","t","r","a","t","e","g","i","c"," ","s","a","c","r","i","f","i","c","e">>,
         <<"c","o","u","r","t"," ","a","v","o","i","d","a","n","c","e">>,
         <<"m","o","r","a","l"," ","c","e","r","t","a","i","n","t","y">>,
         <<"s","t","r","e","n","g","t","h">>,
         <<"d","o","i","n","g"," ","t","h","e"," ","r","i","g","h","t"," ","t","h","i","n","g">>,
         <<"p","r","o","t","e","c","t","i","v","e"," ","p","a","r","e","n","t","i","n","g">>,
         <<"b","e","c","k">>,
         <<"I">>,
         <<"m","e">>,
         <<"m","y">>},
     max_surface_insights |-> 3]

Trigger_internal_voice ==
    [entity |-> <<"i","n","t","e","r","n","a","l","_","v","o","i","c","e">>,
     keywords |-> {
         <<"i","n","t","e","r","n","a","l"," ","v","o","i","c","e">>,
         <<"s","a","b","o","t","a","g","e">>,
         <<"r","e","a","l","i","t","y"," ","i","n","v","e","r","s","i","o","n">>,
         <<"h","u","r","t","i","n","g">>,
         <<"l","o","v","i","n","g"," ","p","a","r","e","n","t">>,
         <<"b","o","u","n","d","a","r","i","e","s">>,
         <<"w","e","a","p","o","n","i","z","a","t","i","o","n">>,
         <<"l","o","v","e">>,
         <<"v","o","i","c","e"," ","i","n"," ","m","y"," ","h","e","a","d">>,
         <<"s","e","l","f","-","t","a","l","k">>},
     max_surface_insights |-> 2]

Trigger_trauma_responses ==
    [entity |-> <<"t","r","a","u","m","a","_","r","e","s","p","o","n","s","e","s">>,
     keywords |-> {
         <<"t","r","a","u","m","a">>,
         <<"t","r","a","u","m","a"," ","r","e","s","p","o","n","s","e","s">>,
         <<"t","r","i","g","g","e","r","e","d">>,
         <<"n","e","r","v","o","u","s"," ","s","y","s","t","e","m">>,
         <<"d","a","n","g","e","r">>,
         <<"d","i","s","p","r","o","p","o","r","t","i","o","n","a","t","e"," ","r","e","s","p","o","n","s","e","s">>,
         <<"a","c","t","i","v","a","t","i","o","n">>,
         <<"p","t","s","d">>},
     max_surface_insights |-> 2]

\* self.semantic_triggers: the dict's items in insertion order, the
\* single-letter compatibility keys last, bound to the same objects.
semantic_triggers == <<
    [name |-> <<"p","a","r","t","n","e","r","_","A">>, trigger |-> Trigger_partner_A],
    [name |-> <<"c","h","i","l","d","_","N">>, trigger |-> Trigger_child_N],
    [name |-> <<"e","x","_","X">>, trigger |-> Trigger_ex_X],
    [name |-> <<"s","e","l","f","_","b","e","c","k">>, trigger |-> Trigger_self_beck],
    [name |-> <<"i","n","t","e","r","n","a","l","_","v","o","i","c","e">>, trigger |-> Trigger_internal_voice],
    [name |-> <<"t","r","a","u","m","a","_","r","e","s","p","o","n","s","e","s">>, trigger |-> Trigger_trauma_responses],
    [name |-> <<"A">>, trigger |-> Trigger_partner_A],
    [name |-> <<"N">>, trigger |-> Trigger_child_N],
    [name |-> <<"X">>, trigger |-> Trigger_ex_X],
    [name |-> <<"b","e","c","k">>, trigger |-> Trigger_self_beck]>>

\* The condition of detect_context_triggers with the containment reversed.
TriggerActivatedReversed(trigger, user_lower) ==
    \/ Contains(Lower(trigger.entity), user_lower)
    \/ \E keyword \in trigger.keywords : Contains(keyword, user_lower)

\* The condition under which detect_context_triggers activates a trigger.
TriggerActivated(trigger, user_lower) ==
    \/ Contains(user_lower, Lower(trigger.entity))
    \/ \E keyword \in trigger.keywords : Contains(user_lower, keyword)

\* sorted() of a set of strings.
RECURSIVE SortedTexts(_)
SortedTexts(S) ==
    IF S = {} THEN <<>>
    ELSE LET least == CHOOSE x \in S : \A y \in S : TextCompare(x, y) <= 0
         IN  <<least>> \o SortedTexts(S \ {least})

\* detect_context_triggers: the canonical entity names of the activated
\* triggers, sorted.
DetectContextTriggers(user_input) ==
    LET user_lower == Lower(user_input)
    IN  SortedTexts({semantic_triggers[k].trigger.entity :
                       k \in {j \in DOMAIN semantic_triggers :
                                TriggerActivated(semantic_triggers[j].trigger, user_lower)}})

\* ----------------------------------------------------------------- inputs

\* The ids ingested under: i1 and i2.
Id(k) == <<"i", DigitChar(k)>>
IdSet == {Id(1), Id(2)}

tok_A == <<"A">>
tok_N == <<"N">>
tok_AN == <<"A","N">>
tok_n == <<"n">>
tok_empty == <<>>
tok_comma == <<"A",",","N">>
tok_partner_A == Trigger_partner_A.entity
tok_child_N == Trigger_child_N.entity
theme_trust == <<"t","r","u","s","t">>
theme_boundaries == <<"b","o","u","n","d","a","r","i","e","s">>
content_old == <<"o","l","d">>
content_new == <<"n","e","w">>

BaseInsight(id) ==
    [id                  |-> id,
     content             |-> content_old,
     entities            |-> {tok_partner_A},
     themes              |-> {theme_trust},
     timestamp           |-> [day |-> 100, frac |-> 0],
     effectiveness_score |-> 10,
     growth_stage        |-> "foundational",
     layer               |-> "surface",
     insight_type        |-> "anchor",
     supersedes          |-> <<>>,
     superseded_by       |-> None,
     source_file         |-> "",
     context             |-> ""]

\* The Insights a caller passes to add_insight under one id.  Scores are in
\* tenths.  Tokens that are empty or hold the delimiter, a layer that differs
\* from what the type, score and age suggest, and a score above 1.0 are
\* included: add_insight accepts them.
Insights(id) ==
    { BaseInsight(id),
      [BaseInsight(id) EXCEPT !.content = content_new, !.entities = {tok_N},
          !.themes = {}, !.effectiveness_score = 5, !.layer = "mid",
          !.insight_type = "observation"],
      [BaseInsight(id) EXCEPT !.entities = {tok_AN},
          !.timestamp = [day |-> 10, frac |-> 0],
          !.effectiveness_score = 0, !.layer = "deep",
          !.insight_type = "strategy"],
      [BaseInsight(id) EXCEPT !.entities = {tok_n}],
      [BaseInsight(id) EXCEPT !.entities = {tok_empty}, !.supersedes = <<tok_comma>>],
      [BaseInsight(id) EXCEPT !.entities = {tok_comma}],
      [BaseInsight(id) EXCEPT !.content = content_new,
          !.entities = {tok_partner_A, tok_child_N},
          !.themes = {theme_trust, theme_boundaries},
          !.timestamp = [day |-> 100, frac |-> 5],
          !.effectiveness_score = 7, !.growth_stage = "evolved",
          !.layer = "mid",
          !.supersedes = <<Id(2), Id(1)>>, !.superseded_by = Id(1),
          !.source_file = "notes.md", !.context = "session"],
      [BaseInsight(id) EXCEPT !.entities = {}, !.effectiveness_score = 15],
      [BaseInsight(id) EXCEPT !.entities = {tok_A},
          !.timestamp = [day |-> 120, frac |-> 0]] }

\* The keys looked up.
LookupKeys == {tok_N, tok_AN, <<"_">>, tok_partner_A, tok_child_N}

\* The texts passed to retrieve_contextual_insights follow.

\* "The weather is nice today"
query_weather ==
    <<"T","h","e"," ","w","e","a","t","h","e","r"," ","i","s"," ","n","i","c","e"," ","t","o","d","a","y">>

\* "I'm worried about trusting A"
query_trusting ==
    <<"I","'","m"," ","w","o","r","r","i","e","d"," ","a","b","o","u","t"," ","t","r","u","s","t","i","n","g"," ","A">>

\* "My child"
query_child == <<"M","y"," ","c","h","i","l","d">>

\* "ptsd", a keyword of the trauma_responses trigger only.
query_ptsd == <<"p","t","s","d">>

\* "sabotage", a keyword of the internal_voice trigger only.
query_sabotage == <<"s","a","b","o","t","a","g","e">>

\* The texts retrieved with when the store holds records of the two topics
\* whose triggers have max_surface_insights = 2.
SurfaceQueries == {query_ptsd, query_sabotage, query_weather}

\* The ids and the Insights ingested then: surface records of either topic.
SurfaceIdSet == {Id(1), Id(2), Id(3)}

SurfaceInsights(id) ==
    { [BaseInsight(id) EXCEPT !.entities = {Trigger_trauma_responses.entity}],
      [BaseInsight(id) EXCEPT !.entities = {Trigger_internal_voice.entity},
          !.content = content_new, !.effectiveness_score = 7] }

Queries == {<<>>, <<" ", " ">>, query_weather, query_trusting, query_child, tok_N}

\* The instants at which retrieve_contextual_insights reads the clock.
Nows == {[day |-> 120, frac |-> 0]}


\* detect_context_triggers is a pure function of the text and the static
\* trigger table: its value on each text the model passes, computed once.
DetectedTable ==
    [user_input \in Queries \cup SurfaceQueries |-> DetectContextTriggers(user_input)]
Detected(user_input) == DetectedTable[user_input]

\* -------------------------------------------------------------- retrieval

\* (datetime.now() - x.timestamp).days: timedelta.days rounds down.
AgeDays(now, ts) == (now.day - ts.day) - (IF now.frac < ts.frac THEN 1 ELSE 0)

\* all_insights: the lookups of the activated triggers, one after another.
RECURSIVE AllInsights(_, _)
AllInsights(tbl, triggers) ==
    IF triggers = <<>> THEN <<>>
    ELSE GetInsightsByEntity(tbl, triggers[1]) \o AllInsights(tbl, Tail(triggers))

\* "Remove duplicates while preserving order": the first insight of each id.
RECURSIVE UniqueById(_, _)
UniqueById(insights, seen_ids) ==
    IF insights = <<>> THEN <<>>
    ELSE IF insights[1].id \in seen_ids THEN UniqueById(Tail(insights), seen_ids)
    ELSE <<insights[1]>> \o UniqueById(Tail(insights), seen_ids \cup {insights[1].id})

\* The sort key (effectiveness_score, -age_days) of a compared with that of b.
KeyGreater(a, b, now) ==
    \/ a.effectiveness_score > b.effectiveness_score
    \/ /\ a.effectiveness_score = b.effectiveness_score
       /\ (0 - AgeDays(now, a.timestamp)) > (0 - AgeDays(now, b.timestamp))

RECURSIVE InsertByKey(_, _, _)
InsertByKey(sorted, x, now) ==
    IF sorted = <<>> THEN <<x>>
    ELSE IF KeyGreater(x, sorted[1], now) THEN <<x>> \o sorted
    ELSE <<sorted[1]>> \o InsertByKey(Tail(sorted), x, now)

\* list.sort(key=..., reverse=True): descending and stable.
RECURSIVE SortByKey(_, _)
SortByKey(insights, now) ==
    IF insights = <<>> THEN <<>>
    ELSE InsertByKey(SortByKey(SubSeq(insights, 1, Len(insights) - 1), now),
                     insights[Len(insights)], now)

\* The slice left out: xs whole.
TakeAll(xs, n) == xs

\* xs[:n]
Take(xs, n) == SubSeq(xs, 1, IF Len(xs) < n THEN Len(xs) ELSE n)

\* The tier categorize_by_layer puts an insight in: the first of the three
\* branches whose condition holds.  Scores are in tenths.
LayerOf(insight, now) ==
    IF \/ insight.insight_type \in {"anchor", "breakthrough"}
       \/ insight.effectiveness_score > 7
       \/ AgeDays(now, insight.timestamp) < 30
    THEN "surface"
    ELSE IF \/ insight.effectiveness_score > 4
            \/ AgeDays(now, insight.timestamp) < 90
    THEN "mid"
    ELSE "deep"

\* insight.content[:100], the key by which duplicates are recognised.
ContentKey(content) == Take(content, 100)

EmptyTiers == [surface |-> <<>>, mid |-> <<>>, deep |-> <<>>]

\* retrieve_contextual_insights
RetrieveContextualInsights(tbl, user_input, max_insights, now) ==
    LET triggers == Detected(user_input)
        unique_insights == SortByKey(UniqueById(AllInsights(tbl, triggers), {}), now)
    IN  IF triggers = <<>> THEN EmptyTiers
        ELSE [surface |-> Take(SelectSeq(unique_insights, LAMBDA i : i.layer = "surface"), 3),
              mid     |-> Take(SelectSeq(unique_insights, LAMBDA i : i.layer = "mid"), 5),
              deep    |-> Take(SelectSeq(unique_insights, LAMBDA i : i.layer = "deep"),
                               max_insights)]

\* ------------------------------------------------------ ConnectionPool

\* Process 0 is the constructor of SimpleContextualInsightRetrieval, which
\* calls _init_database; the others are the threads that call the system.
Constructor == 0
Callers == 1..NumCallers
Procs == {Constructor} \cup Callers

\* Connection objects are numbered by the value of _created_connections that
\* their creation produced.
ConnIds == 1..(2 * pool_size + 1)

\* What a caller's with-block does with the connection it borrowed.
Kinds == {"add_insight", "begin_raise", "close_conn"}

\* The Insight thread p ingests: the ids are pairwise distinct.
InsightOf(p) == [BaseInsight(<<"c", DigitChar(p)>>) EXCEPT !.effectiveness_score = p]

\* The burst check made without the equality excluded.
BurstAllowedInclusive == created_connections <= pool_size * 2

\* "if self._created_connections < self.pool_size * 2"
BurstAllowed == created_connections < pool_size * 2

\* A removal that hands out the head and leaves it in the queue.
DequeueKeeping(q) == q

\* What queue.Queue holds after get_nowait() / get() returned its head.
Dequeue(q) == Tail(q)

\* A timed wait that never raises queue.Empty.
WaitForever(p) == FALSE

\* A release that leaves the transaction as the caller left it.
RollbackSkipped(txn, c) == txn

\* conn.rollback() on an open connection: no transaction stays open.
Rollback(txn, c) == [txn EXCEPT ![c] = FALSE]

\* The state after ConnectionPool.__init__: the loop called
\* _create_connection pool_size times and kept none of the connections it
\* returned, so the counter is pool_size and the queue is empty.
Init ==
    /\ created_connections = pool_size
    /\ pool = <<>>
    /\ lock = {}
    /\ connState = [c \in ConnIds |-> IF c <= pool_size THEN "dropped" ELSE "unborn"]
    /\ inTransaction = [c \in ConnIds |-> FALSE]
    /\ pc = [p \in Procs |-> IF p = Constructor THEN "get_nowait" ELSE "start"]
    /\ kind = [p \in Procs |-> IF p = Constructor THEN "init_database" ELSE "none"]
    /\ conn = [p \in Procs |-> 0]
    /\ result = [p \in Procs |-> "none"]
    /\ table = <<>>
    /\ latest = [id \in {} |-> <<>>]
    /\ conversation_history = <<>>
    /\ active_entities = {}
    /\ last_insights_surfaced = <<>>
    /\ out = [op |-> "none"]

\* A thread enters get_connection, once the constructor has returned.
Call(p, k) ==
    /\ p \in Callers
    /\ pc[Constructor] = "done"
    /\ pc[p] = "start"
    /\ pc' = [pc EXCEPT ![p] = "get_nowait"]
    /\ kind' = [kind EXCEPT ![p] = k]
    /\ UNCHANGED <<created_connections, pool, lock, connState, inTransaction,
                   conn, result, table, latest, out,
                   chatVars>>

\* conn = self._pool.get_nowait(), or Empty is caught.
TryGet(p) ==
    /\ pc[p] = "get_nowait"
    /\ IF pool # <<>>
       THEN /\ conn' = [conn EXCEPT ![p] = Head(pool)]
            /\ pool' = Dequeue(pool)
            /\ pc' = [pc EXCEPT ![p] = "body"]
       ELSE /\ pc' = [pc EXCEPT ![p] = "lock"]
            /\ UNCHANGED <<conn, pool>>
    /\ UNCHANGED <<created_connections, lock, connState, inTransaction,
                   kind, result, table, latest, out,
                   chatVars>>

\* with self._lock: create a burst connection, or start the timed wait
\* (still holding the lock).
LockedAcquire(p) ==
    /\ pc[p] = "lock"
    /\ lock = {}
    /\ IF BurstAllowed
       THEN /\ created_connections' = created_connections + 1
            /\ connState' = [connState EXCEPT ![created_connections + 1] = "open"]
            /\ conn' = [conn EXCEPT ![p] = created_connections + 1]
            /\ pc' = [pc EXCEPT ![p] = "body"]
            /\ UNCHANGED lock
       ELSE /\ lock' = {p}
            /\ pc' = [pc EXCEPT ![p] = "wait"]
            /\ UNCHANGED <<created_connections, connState, conn>>
    /\ UNCHANGED <<pool, inTransaction, kind, result, table, latest, out,
                   chatVars>>

\* self._pool.get(timeout=5.0) returns a connection put back meanwhile.
WaitGet(p) ==
    /\ pc[p] = "wait"
    /\ pool # <<>>
    /\ conn' = [conn EXCEPT ![p] = Head(pool)]
    /\ pool' = Dequeue(pool)
    /\ lock' = {}
    /\ pc' = [pc EXCEPT ![p] = "body"]
    /\ UNCHANGED <<created_connections, connState, inTransaction, kind, result,
                   table, latest, out,
                   chatVars>>

\* self._pool.get(timeout=5.0) raises queue.Empty: the exception leaves
\* get_connection before the yield, with conn still None.
WaitTimeout(p) ==
    /\ pc[p] = "wait"
    /\ pool = <<>>
    /\ result' = [result EXCEPT ![p] = "Empty"]
    /\ lock' = {}
    /\ pc' = [pc EXCEPT ![p] = "done"]
    /\ UNCHANGED <<created_connections, pool, connState, inTransaction, kind,
                   conn, table, latest, out,
                   chatVars>>

\* The with-block of _init_database: CREATE TABLE / INDEX IF NOT EXISTS.
InitDatabaseBody ==
    /\ pc[Constructor] = "body"
    /\ result' = [result EXCEPT ![Constructor] = "ok"]
    /\ pc' = [pc EXCEPT ![Constructor] = "release"]
    /\ UNCHANGED <<created_connections, pool, lock, connState, inTransaction,
                   kind, conn, table, latest, out,
                   chatVars>>

\* The with-block of add_insight: INSERT OR REPLACE, commit.
AddInsightBody(p) ==
    /\ pc[p] = "body"
    /\ kind[p] = "add_insight"
    /\ \E eo \in Orders(InsightOf(p).entities), to \in Orders(InsightOf(p).themes) :
          table' = InsertOrReplace(table, RowOf(InsightOf(p), eo, to))
    /\ latest' = [id \in DOMAIN latest \cup {InsightOf(p).id} |->
                    IF id = InsightOf(p).id THEN <<InsightOf(p)>> ELSE latest[id]]
    /\ result' = [result EXCEPT ![p] = "ok"]
    /\ pc' = [pc EXCEPT ![p] = "release"]
    /\ UNCHANGED <<created_connections, pool, lock, connState, inTransaction,
                   kind, conn, out,
                   chatVars>>

\* A with-block that begins a transaction and raises before committing.
BeginRaiseBody(p) ==
    /\ pc[p] = "body"
    /\ kind[p] = "begin_raise"
    /\ inTransaction' = [inTransaction EXCEPT ![conn[p]] = TRUE]
    /\ result' = [result EXCEPT ![p] = "raised"]
    /\ pc' = [pc EXCEPT ![p] = "release"]
    /\ UNCHANGED <<created_connections, pool, lock, connState, kind, conn,
                   table, latest, out,
                   chatVars>>

\* A with-block that leaves the connection closed, so that the rollback of
\* the release raises.
CloseConnBody(p) ==
    /\ pc[p] = "body"
    /\ kind[p] = "close_conn"
    /\ connState' = [connState EXCEPT ![conn[p]] = "closed"]
    /\ result' = [result EXCEPT ![p] = "ok"]
    /\ pc' = [pc EXCEPT ![p] = "release"]
    /\ UNCHANGED <<created_connections, pool, lock, inTransaction, kind, conn,
                   table, latest, out,
                   chatVars>>

\* The finally clause: rollback, put_nowait; close the connection when
\* either raises.
Release(p) ==
    /\ pc[p] = "release"
    /\ IF connState[conn[p]] = "closed"
       THEN UNCHANGED <<pool, connState, inTransaction>>
       ELSE /\ inTransaction' = Rollback(inTransaction, conn[p])
            /\ IF Len(pool) < pool_size
               THEN /\ pool' = Append(pool, conn[p])
                    /\ UNCHANGED connState
               ELSE /\ connState' = [connState EXCEPT ![conn[p]] = "closed"]
                    /\ UNCHANGED pool
    /\ conn' = [conn EXCEPT ![p] = 0]
    /\ pc' = [pc EXCEPT ![p] = "done"]
    /\ UNCHANGED <<created_connections, lock, kind, result, table, latest, out,
                   chatVars>>

ProcNext(p) ==
    \/ \E k \in Kinds : Call(p, k)
    \/ TryGet(p)
    \/ LockedAcquire(p)
    \/ WaitGet(p)
    \/ WaitTimeout(p)
    \/ AddInsightBody(p)
    \/ BeginRaiseBody(p)
    \/ CloseConnBody(p)
    \/ Release(p)

Next == InitDatabaseBody \/ \E p \in Procs : ProcNext(p)

Spec == Init /\ [][Next]_vars

\* Every thread keeps running, and a timed wait ends.
LiveSpec == Spec /\ WF_vars(InitDatabaseBody) /\ \A p \in Procs : WF_vars(ProcNext(p))

\* ------------------------------------------- the system called in sequence

\* The state in which the constructor of SimpleContextualInsightRetrieval
\* returns: _init_database created one connection and put it back.
InitStore ==
    /\ created_connections = pool_size + 1
    /\ pool = <<pool_size + 1>>
    /\ lock = {}
    /\ connState = [c \in ConnIds |-> IF c <= pool_size THEN "dropped"
                                      ELSE IF c = pool_size + 1 THEN "open"
                                      ELSE "unborn"]
    /\ inTransaction = [c \in ConnIds |-> FALSE]
    /\ pc = [p \in Procs |-> IF p = Constructor THEN "done" ELSE "start"]
    /\ kind = [p \in Procs |-> IF p = Constructor THEN "init_database" ELSE "none"]
    /\ conn = [p \in Procs |-> 0]
    /\ result = [p \in Procs |-> IF p = Constructor THEN "ok" ELSE "none"]
    /\ table = <<>>
    /\ latest = [id \in {} |-> <<>>]
    /\ conversation_history = <<>>
    /\ active_entities = {}
    /\ last_insights_surfaced = <<>>
    /\ out = [op |-> "none"]

\* One caller at a time finds the connection idle and puts it back.
BorrowAndReturn ==
    /\ pool # <<>>
    /\ pool' = Append(Tail(pool), Head(pool))

\* The body of add_insight: one connection borrowed, one row written.
StoreInsight(insight, eo, to) ==
    /\ BorrowAndReturn
    /\ table' = InsertOrReplace(table, RowOf(insight, eo, to))
    /\ latest' = [id \in DOMAIN latest \cup {insight.id} |->
                    IF id = insight.id THEN <<insight>> ELSE latest[id]]

\* add_insight(insight), the sets iterated in the orders eo and to.
AddInsight(insight, eo, to) ==
    /\ StoreInsight(insight, eo, to)
    /\ out' = [op |-> "add_insight", key |-> insight.id,
               replaced |-> \E k \in DOMAIN table :
                               table[k].id = insight.id /\ table[k].content # insight.content]
    /\ UNCHANGED <<created_connections, lock, connState, inTransaction, pc, kind,
                   conn, result,
                   chatVars>>

\* _init_database() run again on the database that holds the table.
InitDatabase ==
    /\ BorrowAndReturn
    /\ table' = CreateTableIfNotExists(table)
    /\ out' = [op |-> "init_database"]
    /\ UNCHANGED <<created_connections, lock, connState, inTransaction, pc, kind,
                   conn, result, latest,
                   chatVars>>

\* _get_insights_by_entity(entity)
Lookup(entity) ==
    /\ BorrowAndReturn
    /\ out' = [op |-> "lookup", key |-> entity,
               value |-> GetInsightsByEntity(table, entity)]
    /\ UNCHANGED <<created_connections, lock, connState, inTransaction, pc, kind,
                   conn, result, table, latest,
                   chatVars>>

\* retrieve_contextual_insights(user_input) with the default max_insights;
\* no connection is borrowed when no trigger is activated.
Retrieve(user_input, now) ==
    /\ Detected(user_input) # <<>> => pool # <<>>
    /\ out' = [op |-> "retrieve", key |-> user_input, now |-> now,
               value |-> RetrieveContextualInsights(table, user_input, 5, now)]
    /\ UNCHANGED <<created_connections, pool, lock, connState, inTransaction, pc,
                   kind, conn, result, table, latest,
                   chatVars>>

\* detect_context_triggers(user_input); it reads the trigger table only.
Detect(user_input) ==
    /\ out' = [op |-> "detect", key |-> user_input, value |-> Detected(user_input)]
    /\ UNCHANGED <<created_connections, pool, lock, connState, inTransaction, pc,
                   kind, conn, result, table, latest,
                   chatVars>>

\* ------------------------------------------------ the /add route

\* The JSON values a request carries under effectiveness_score, as Python
\* sees them after request.json: a type and, for int, float and bool, the
\* number the value compares as (in tenths).  "absent" is a request without
\* the key.
JsonScores ==
    { [type |-> "absent", val |-> 0],
      [type |-> "float",  val |-> 3],
      [type |-> "float",  val |-> 15],
      [type |-> "int",    val |-> -10],
      [type |-> "str",    val |-> 0],
      [type |-> "NoneType", val |-> 0],
      [type |-> "bool",   val |-> 10] }

\* The texts a request carries under content: one character between
\* blanks, nothing, one blank, and 2001 characters.
JsonContents ==
    { <<" ", "x", " ">>, <<>>, <<" ">>, [k \in 1..2001 |-> "x"] }

\* The lists a request carries under entities; [] is also the default.
JsonEntities == { <<>>, <<tok_partner_A>> }

\* The bodies of the requests to /add.
AddRequests ==
    [content : JsonContents, effectiveness_score : JsonScores, entities : JsonEntities]

\* data.get('effectiveness_score', 0.5)
GetScore(data) ==
    IF data.effectiveness_score.type = "absent"
    THEN [type |-> "float", val |-> 5]
    ELSE data.effectiveness_score

\* not content or len(content) > 2000, content being stripped
ContentRejected(content) == content = <<>> \/ Len(content) > 2000

\* not isinstance(effectiveness_score, (int, float))
\*     or not 0 <= effectiveness_score <= 1
\* bool is a subclass of int.
ScoreRejected(score) ==
    \/ score.type \notin {"int", "float", "bool"}
    \/ ~(0 <= score.val /\ score.val <= 10)

\* The Insight the route builds from an accepted request.
ApiInsight(id, content, score, entities, now) ==
    [id                  |-> id,
     content             |-> content,
     entities            |-> Range(entities),
     themes              |-> {},
     timestamp           |-> now,
     effectiveness_score |-> score.val,
     growth_stage        |-> "foundational",
     layer               |-> "surface",
     insight_type        |-> "observation",
     supersedes          |-> <<>>,
     superseded_by       |-> None,
     source_file         |-> "claude_conversation",
     context             |-> "Added via Claude"]

\* Config.ALLOWED_PROJECT_DIRS with the default of the environment variable,
\* and the directory the server runs in.
ALLOWED_PROJECT_DIRS == <<"/Users/beck/Documents">>
getcwd == "/srv/memory"

\* A header value is absent (type "NoneType"), a text that is no digest
\* (type "str") or the hexdigest of an HMAC-SHA256 under SECRET_KEY (type
\* "hmac_sha256", text the data digested): digests of different data differ,
\* and differ from the other texts.
NoHeader == [type |-> "NoneType", text |-> ""]
HeaderText(text) == [type |-> "str", text |-> text]

\* Config.generate_secure_token(data)
GenerateSecureToken(data) == [type |-> "hmac_sha256", text |-> data]

\* The values of request.headers.get('X-Memory-Token'): no header, an empty
\* header, the tokens of the allowed directory, of the server's directory
\* and of another directory, and the text the access test sends.
Tokens ==
    { NoHeader, HeaderText(""), HeaderText("invalid_token"),
      GenerateSecureToken(ALLOWED_PROJECT_DIRS[1]),
      GenerateSecureToken(getcwd),
      GenerateSecureToken("/tmp") }

\* A verification that accepts every request.
VerifyNothing(provided_token) == TRUE

\* verify_access_token()
VerifyAccessToken(provided_token) ==
    IF provided_token = NoHeader \/ provided_token = HeaderText("") THEN FALSE
    ELSE IF \E k \in DOMAIN ALLOWED_PROJECT_DIRS :
               provided_token = GenerateSecureToken(ALLOWED_PROJECT_DIRS[k]) THEN TRUE
    ELSE provided_token = GenerateSecureToken(getcwd)

\* POST /add with a JSON body that has a content key; id is the uuid4 drawn
\* for the new record, one no stored record has.
ApiAddInsight(provided_token, data, id, now) ==
    LET content == Strip(data.content, " ")
        score == GetScore(data)
    IN  IF ~VerifyAccessToken(provided_token)
        THEN /\ out' = [op |-> "api_add", token |-> provided_token,
                        request |-> data, status |-> 401,
                        acquired |-> FALSE, written |-> FALSE]
             /\ UNCHANGED <<created_connections, pool, lock, connState,
                            inTransaction, pc, kind, conn, result, table, latest,
                            chatVars>>
        ELSE IF ContentRejected(content) \/ ScoreRejected(score)
        THEN /\ out' = [op |-> "api_add", token |-> provided_token,
                        request |-> data, status |-> 400,
                        acquired |-> FALSE, written |-> FALSE]
             /\ UNCHANGED <<created_connections, pool, lock, connState,
                            inTransaction, pc, kind, conn, result, table, latest,
                            chatVars>>
        ELSE /\ \A k \in DOMAIN table : table[k].id # id
             /\ StoreInsight(ApiInsight(id, content, score, data.entities, now),
                             data.entities, <<>>)
             /\ out' = [op |-> "api_add", token |-> provided_token,
                        request |-> data, status |-> 200,
                        acquired |-> TRUE, written |-> table' # table]
             /\ UNCHANGED <<created_connections, lock, connState, inTransaction,
                            pc, kind, conn, result,
                            chatVars>>

\* POST /query with a JSON body whose input is user_input and whose
\* max_results is absent or given.
ApiQuery(provided_token, user_input, max_results, now) ==
    LET text == Strip(user_input, " ")
        insights == RetrieveContextualInsights(table, text, 5, now)
        limit == IF max_results < 10 THEN max_results ELSE 10
    IN  /\ IF ~VerifyAccessToken(provided_token)
           THEN out' = [op |-> "api_query", token |-> provided_token,
                        key |-> user_input, status |-> 401, acquired |-> FALSE]
           ELSE /\ Detected(text) # <<>> => pool # <<>>
                /\ out' = [op |-> "api_query", token |-> provided_token,
                           key |-> user_input, status |-> 200,
                           acquired |-> Detected(text) # <<>>,
                           insights |-> Take(insights.surface, limit),
                           triggers |-> Detected(text),
                           total_available |-> Len(insights.surface \o insights.mid)]
        /\ UNCHANGED <<created_connections, pool, lock, connState, inTransaction,
                       pc, kind, conn, result, table, latest,
                       chatVars>>

\* The service as the HTTP clients that hold the token of the server's
\* directory drive it.
NextApi ==
    \/ \E data \in AddRequests, id \in IdSet, now \in Nows :
          ApiAddInsight(GenerateSecureToken(getcwd), data, id, now)
    \/ \E user_input \in {query_trusting, query_weather}, max_results \in {1, 3},
          now \in Nows :
          ApiQuery(GenerateSecureToken(getcwd), user_input, max_results, now)

SpecApi == InitStore /\ [][NextApi]_vars

\* The bodies of the requests sent with any header value: short content, a
\* float score or none.
AuthRequests ==
    {data \in AddRequests : /\ data.content = <<" ", "x", " ">>
                            /\ data.effectiveness_score.type \in {"absent", "float"}}

\* The service as HTTP clients with any X-Memory-Token header drive it.
NextAuth ==
    \/ \E provided_token \in Tokens, data \in AuthRequests, id \in IdSet, now \in Nows :
          ApiAddInsight(provided_token, data, id, now)
    \/ \E provided_token \in Tokens, user_input \in {query_trusting, query_weather},
          max_results \in {1, 3}, now \in Nows :
          ApiQuery(provided_token, user_input, max_results, now)

SpecAuth == InitStore /\ [][NextAuth]_vars

NextStore ==
    \/ \E id \in IdSet : \E insight \in Insights(id) :
          \E eo \in Orders(insight.entities), to \in Orders(insight.themes) :
             AddInsight(insight, eo, to)
    \/ \E entity \in LookupKeys : Lookup(entity)
    \/ \E user_input \in Queries, now \in Nows : Retrieve(user_input, now)
    \/ \E user_input \in Queries : Detect(user_input)
    \/ InitDatabase

SpecStore == InitStore /\ [][NextStore]_vars

\* The same system with three ids and the records and queries of the two
\* topics whose triggers have max_surface_insights = 2.
NextSurface ==
    \/ \E id \in SurfaceIdSet : \E insight \in SurfaceInsights(id) :
          \E eo \in Orders(insight.entities), to \in Orders(insight.themes) :
             AddInsight(insight, eo, to)
    \/ \E user_input \in SurfaceQueries, now \in Nows : Retrieve(user_input, now)

SpecSurface == InitStore /\ [][NextSurface]_vars

\* ---------------------------------------- ContextualInsightRetrieval

\* The system of insight_retrieval_system.py opens a connection of its own in
\* every call and has no pool.  Its rows also hold the embedding of the
\* content, which no query reads; the rows of the model leave it out.

\* The SemanticTrigger objects built by its _initialize_triggers.
FullTrigger_A ==
    [entity |-> <<"A">>,
     keywords |-> {
         <<"t","r","u","s","t">>,
         <<"r","e","l","a","t","i","o","n","s","h","i","p">>,
         <<"t","r","u","s","t","w","o","r","t","h","y">>,
         <<"l","u","c","k","y">>,
         <<"w","o","r","d"," ","i","s"," ","e","n","o","u","g","h">> },
     max_surface_insights |-> 3]

FullTrigger_N ==
    [entity |-> <<"N">>,
     keywords |-> {
         <<"b","o","u","n","d","a","r","i","e","s">>,
         <<"p","a","r","e","n","t","i","n","g">>,
         <<"s","c","h","o","o","l">>,
         <<"h","y","g","i","e","n","e">>,
         <<"a","n","g","e","r">>,
         <<"s","t","r","u","c","t","u","r","e">> },
     max_surface_insights |-> 3]

FullTrigger_X ==
    [entity |-> <<"X">>,
     keywords |-> {
         <<"v","o","i","c","e">>,
         <<"t","r","a","u","m","a">>,
         <<"i","n","a","d","e","q","u","a","c","y">>,
         <<"s","c","a","n","n","i","n","g">>,
         <<"X","'","s"," ","v","o","i","c","e">> },
     max_surface_insights |-> 2]

FullTrigger_trauma_responses ==
    [entity |-> <<"t","r","a","u","m","a","_","r","e","s","p","o","n","s","e","s">>,
     keywords |-> {
         <<"a","c","t","i","v","a","t","i","o","n">>,
         <<"t","r","i","g","g","e","r","e","d">>,
         <<"n","e","r","v","o","u","s"," ","s","y","s","t","e","m">>,
         <<"s","h","u","t","d","o","w","n">>,
         <<"s","c","a","n","n","i","n","g">> },
     max_surface_insights |-> 3]

\* self.semantic_triggers: the dict's items in insertion order.
full_semantic_triggers == <<
    [name |-> <<"A">>, trigger |-> FullTrigger_A],
    [name |-> <<"N">>, trigger |-> FullTrigger_N],
    [name |-> <<"X">>, trigger |-> FullTrigger_X],
    [name |-> <<"t","r","a","u","m","a","_","r","e","s","p","o","n","s","e","s">>, trigger |-> FullTrigger_trauma_responses]>>

\* detect_context_triggers: the names of the activated triggers in the order
\* of the dict.  The condition is the one of the pooled system.
FullDetectContextTriggers(user_input) ==
    LET user_lower == Lower(user_input)
        activated == SelectSeq(full_semantic_triggers,
                               LAMBDA item : TriggerActivated(item.trigger, user_lower))
    IN  [k \in 1..Len(activated) |-> activated[k].name]

\* The markers assess_strategy_effectiveness counts.
positive_markers == {
    <<"w","o","r","k","e","d">>,
    <<"e","f","f","e","c","t","i","v","e">>,
    <<"h","e","l","p","e","d">>,
    <<"b","r","e","a","k","t","h","r","o","u","g","h">>,
    <<"s","u","c","c","e","s","s">>,
    <<"a","b","l","e"," ","t","o">>,
    <<"f","i","n","a","l","l","y">>,
    <<"s","t","r","e","n","g","t","h">>,
    <<"t","r","u","s","t">>,
    <<"c","l","a","r","i","t","y">> }

negative_markers == {
    <<"f","a","i","l","e","d">>,
    <<"c","o","u","l","d","n","'","t">>,
    <<"i","m","p","o","s","s","i","b","l","e">>,
    <<"g","a","v","e"," ","u","p">>,
    <<"c","o","l","l","a","p","s","e","d">>,
    <<"d","i","d","n","'","t"," ","w","o","r","k">>,
    <<"b","a","c","k","f","i","r","e","d">>,
    <<"m","a","d","e"," ","i","t"," ","w","o","r","s","e">> }

\* sum(1 for marker in markers if marker in content_lower)
MarkerCount(markers, content_lower) ==
    Cardinality({marker \in markers : Contains(content_lower, marker)})

\* assess_strategy_effectiveness, in tenths.
AssessStrategyEffectiveness(content) ==
    LET content_lower == Lower(content)
        positive_count == MarkerCount(positive_markers, content_lower)
        negative_count == MarkerCount(negative_markers, content_lower)
    IN  IF positive_count > negative_count
        THEN (IF 6 + positive_count < 10 THEN 6 + positive_count ELSE 10)
        ELSE IF negative_count > positive_count
        THEN (IF 4 - negative_count > 0 THEN 4 - negative_count ELSE 0)
        ELSE 5

\* np.exp(-0.02 * n) in millionths, for n = days_diff - 30 from 1 to 90.
ExpDecay == <<
    980199, 960789, 941765, 923116, 904837, 886920, 869358, 852144, 835270, 818731,
    802519, 786628, 771052, 755784, 740818, 726149, 711770, 697676, 683861, 670320,
    657047, 644036, 631284, 618783, 606531, 594521, 582748, 571209, 559898, 548812,
    537944, 527292, 516851, 506617, 496585, 486752, 477114, 467666, 458406, 449329,
    440432, 431711, 423162, 414783, 406570, 398519, 390628, 382893, 375311, 367879,
    360595, 353455, 346456, 339596, 332871, 326280, 319819, 313486, 307279, 301194,
    295230, 289384, 283654, 278037, 272532, 267135, 261846, 256661, 251579, 246597,
    241714, 236928, 232236, 227638, 223130, 218712, 214381, 210136, 205975, 201897,
    197899, 193980, 190139, 186374, 182684, 179066, 175520, 172045, 168638, 165299,
    162026, 158817, 155673, 152590, 149569, 146607, 143704, 140858, 138069, 135335,
    132655, 130029, 127454, 124930, 122456, 120032, 117655, 115325, 113042, 110803,
    108609, 106459, 104350, 102284, 100259, 98274, 96328, 94420, 92551, 90718,
    88922, 87161, 85435, 83743, 82085, 80460, 78866, 77305, 75774, 74274,
    72803, 71361, 69948, 68563, 67206, 65875, 64570, 63292, 62039, 60810>>

\* The decay without the floor of 0.1.
CalculateWeightNoFloor(insight_date, current_date) ==
    LET days_diff == AgeDays(current_date, insight_date)
    IN  IF days_diff <= 30 THEN 1000000 ELSE ExpDecay[days_diff - 30]

\* TemporalWeight.calculate_weight, in millionths.
CalculateWeight(insight_date, current_date) ==
    LET days_diff == AgeDays(current_date, insight_date)
    IN  IF days_diff <= 30 THEN 1000000
        ELSE IF ExpDecay[days_diff - 30] > 100000 THEN ExpDecay[days_diff - 30]
        ELSE 100000

\* The patterns of is_bedrock_truth; none holds a regular-expression operator.
bedrock_patterns == {
    <<"X","'","s"," ","v","o","i","c","e">>,
    <<"C","r","i","s","i","s"," ","A","n","c","h","o","r">>,
    <<"f","o","u","n","d","a","t","i","o","n","a","l"," ","p","a","t","t","e","r","n">>,
    <<"h","i","s"," ","w","o","r","d"," ","i","s"," ","e","n","o","u","g","h">>,
    <<"t","r","a","u","m","a"," ","r","e","s","p","o","n","s","e">>,
    <<"c","o","r","e"," ","t","r","u","t","h">> }

\* TemporalWeight.is_bedrock_truth: re.search with re.IGNORECASE.
IsBedrockTruth(insight) ==
    \E pattern \in bedrock_patterns : Contains(Lower(insight.content), Lower(pattern))

\* Twice the final_score retrieve_contextual_insights gives an insight, in
\* millionths: effectiveness_score * 0.5 + temporal_score * 0.5.
FinalScore(insight, current_time) ==
    LET weight == CalculateWeight(insight.timestamp, current_time)
        boosted == IF (weight * 3) \div 2 < 1000000 THEN (weight * 3) \div 2 ELSE 1000000
        temporal_score == IF IsBedrockTruth(insight) THEN boosted ELSE weight
    IN  insight.effectiveness_score * 100000 + temporal_score

\* add_insight: the score is the assessed one whatever the caller passed, and
\* the token sets are joined with ',' alone.
FullRowOf(insight, eOrder, tOrder) ==
    [id                  |-> insight.id,
     content             |-> insight.content,
     entities            |-> Join(eOrder, <<",">>),
     themes              |-> Join(tOrder, <<",">>),
     timestamp           |-> isoformat(insight.timestamp),
     effectiveness_score |-> AssessStrategyEffectiveness(insight.content),
     growth_stage        |-> insight.growth_stage,
     layer               |-> insight.layer,
     insight_type        |-> insight.insight_type,
     supersedes          |-> Join(insight.supersedes, <<",">>),
     superseded_by       |-> insight.superseded_by,
     source_file         |-> insight.source_file,
     context             |-> insight.context]

\* row[k].split(',') if row[k] else []
FullDecodeList(text) ==
    IF text = None \/ text = <<>> THEN <<>> ELSE Split(text, ",")

\* The Insight _get_insights_by_entity builds from a row.
FullInsightOfRow(row) ==
    [id                  |-> row.id,
     content             |-> row.content,
     entities            |-> Range(FullDecodeList(row.entities)),
     themes              |-> Range(FullDecodeList(row.themes)),
     timestamp           |-> fromisoformat(row.timestamp),
     effectiveness_score |-> row.effectiveness_score,
     growth_stage        |-> row.growth_stage,
     layer               |-> row.layer,
     insight_type        |-> row.insight_type,
     supersedes          |-> FullDecodeList(row.supersedes),
     superseded_by       |-> row.superseded_by,
     source_file         |-> row.source_file,
     context             |-> row.context]

\* _get_insights_by_entity: WHERE entities LIKE '%entity%' ORDER BY
\* effectiveness_score DESC, timestamp DESC.
FullGetInsightsByEntity(tbl, entity) ==
    LET rows == OrderRows(SelectSeq(tbl, LAMBDA r :
                    Like(r.entities, <<"%">> \o entity \o <<"%">>)))
    IN  [k \in 1..Len(rows) |-> FullInsightOfRow(rows[k])]

\* all_insights: the lookups of the activated triggers' entities, in order.
RECURSIVE FullAllInsights(_, _)
FullAllInsights(tbl, names) ==
    IF names = <<>> THEN <<>>
    ELSE LET item == CHOOSE t \in Range(full_semantic_triggers) : t.name = names[1]
         IN  FullGetInsightsByEntity(tbl, item.trigger.entity)
                \o FullAllInsights(tbl, Tail(names))

\* insight.final_score = final_score
Scored(insights, current_time) ==
    [k \in 1..Len(insights) |->
        [f \in DOMAIN insights[k] \cup {"final_score"} |->
            IF f = "final_score" THEN FinalScore(insights[k], current_time)
            ELSE insights[k][f]]]

RECURSIVE InsertByScore(_, _)
InsertByScore(sorted, x) ==
    IF sorted = <<>> THEN <<x>>
    ELSE IF x.final_score > sorted[1].final_score THEN <<x>> \o sorted
    ELSE <<sorted[1]>> \o InsertByScore(Tail(sorted), x)

\* scored_insights.sort(key=lambda x: x.final_score, reverse=True): stable.
RECURSIVE SortByScore(_)
SortByScore(insights) ==
    IF insights = <<>> THEN <<>>
    ELSE InsertByScore(SortByScore(SubSeq(insights, 1, Len(insights) - 1)),
                       insights[Len(insights)])

\* The loop over seen_content: the first insight of each content key.
RECURSIVE UniqueByContent(_, _)
UniqueByContent(insights, seen_content) ==
    IF insights = <<>> THEN <<>>
    ELSE IF ContentKey(insights[1].content) \in seen_content
    THEN UniqueByContent(Tail(insights), seen_content)
    ELSE <<insights[1]>> \o UniqueByContent(Tail(insights),
                               seen_content \cup {ContentKey(insights[1].content)})

\* LayeredArchitecture.categorize_by_layer with surface_limit 3, mid_limit 8.
CategorizeByLayer(insights, now) ==
    [surface |-> Take(SelectSeq(insights, LAMBDA i : LayerOf(i, now) = "surface"), 3),
     mid     |-> Take(SelectSeq(insights, LAMBDA i : LayerOf(i, now) = "mid"), 8),
     deep    |-> SelectSeq(insights, LAMBDA i : LayerOf(i, now) = "deep")]

\* unique_insights of retrieve_contextual_insights, given the activated
\* triggers.
FullUniqueInsights(tbl, activated_triggers, current_time) ==
    UniqueByContent(
        SortByScore(Scored(FullAllInsights(tbl, activated_triggers), current_time)), {})

\* The texts passed to this system; the last is "The sky is blue".
query_sky == <<"T","h","e"," ","s","k","y"," ","i","s"," ","b","l","u","e">>

FullQueries == {<<>>, query_weather, query_trusting, query_sky}

\* "panic about A"
query_panic == <<"p","a","n","i","c"," ","a","b","o","u","t"," ","A">>

\* The texts passed to chat.
ChatInputs == {query_trusting, query_weather, query_panic}

\* The text get_crisis_anchors appends to its context.
crisis_anchor_suffix == <<" ","c","r","i","s","i","s"," ","a","n","c","h","o","r">>

FullDetectedTable ==
    [user_input \in FullQueries \cup ChatInputs
                   \cup {c \o crisis_anchor_suffix : c \in ChatInputs} |->
        FullDetectContextTriggers(user_input)]
FullDetected(user_input) == FullDetectedTable[user_input]

\* retrieve_contextual_insights
FullRetrieveContextualInsights(tbl, user_input, max_insights, now) ==
    LET activated_triggers == FullDetected(user_input)
    IN  IF activated_triggers = <<>> THEN EmptyTiers
        ELSE CategorizeByLayer(
                 Take(FullUniqueInsights(tbl, activated_triggers, now), max_insights), now)

\* The ids this system is given: i1 to i4.
FullIdSet == {Id(1), Id(2), Id(3), Id(4)}

content_trust == <<"t","r","u","s","t"," ","w","o","r","k","e","d"," ","h","e","l","p","e","d"," ","f","i","n","a","l","l","y">>
content_success == <<"h","e","l","p","e","d"," ","s","u","c","c","e","s","s"," ","c","l","a","r","i","t","y"," ","s","t","r","e","n","g","t","h">>
content_failed == <<"f","a","i","l","e","d">>
content_long_a == [k \in 1..100 |-> "x"] \o <<"a">>
content_long_b == [k \in 1..100 |-> "x"] \o <<"b">>

\* The Insights passed to add_insight under each id: an anchor tagged A of
\* age 0 and an old record with two entities and a score of 0.9 passed in;
\* a record tagged N a moment newer than the anchor and one of 101
\* characters, 60 days old; a younger one with the same first 100
\* characters; one tagged AN.
FullInsights(id) ==
    IF id = Id(1) THEN
        { [BaseInsight(id) EXCEPT !.content = content_trust, !.entities = {tok_A},
              !.timestamp = [day |-> 120, frac |-> 0],
              !.effectiveness_score = 0, !.layer = "deep"],
          [BaseInsight(id) EXCEPT !.content = content_failed,
              !.entities = {tok_A, tok_N},
              !.timestamp = [day |-> 10, frac |-> 0],
              !.effectiveness_score = 9, !.insight_type = "observation"] }
    ELSE IF id = Id(2) THEN
        { [BaseInsight(id) EXCEPT !.content = content_success, !.entities = {tok_N},
              !.timestamp = [day |-> 120, frac |-> 5],
              !.effectiveness_score = 10, !.insight_type = "observation"],
          [BaseInsight(id) EXCEPT !.content = content_long_a, !.entities = {tok_A},
              !.timestamp = [day |-> 60, frac |-> 0],
              !.effectiveness_score = 5, !.insight_type = "strategy"] }
    ELSE IF id = Id(3) THEN
        { [BaseInsight(id) EXCEPT !.content = content_long_b, !.entities = {tok_A},
              !.effectiveness_score = 5, !.insight_type = "strategy"] }
    ELSE
        { [BaseInsight(id) EXCEPT !.entities = {tok_AN},
              !.effectiveness_score = 5, !.insight_type = "observation"] }

\* The state in which the constructor of ContextualInsightRetrieval returns:
\* an empty table; the pool of the other system does not exist.
InitFull ==
    /\ created_connections = 0
    /\ pool = <<>>
    /\ lock = {}
    /\ connState = [c \in ConnIds |-> "unborn"]
    /\ inTransaction = [c \in ConnIds |-> FALSE]
    /\ pc = [p \in Procs |-> "start"]
    /\ kind = [p \in Procs |-> "none"]
    /\ conn = [p \in Procs |-> 0]
    /\ result = [p \in Procs |-> "none"]
    /\ table = <<>>
    /\ latest = [id \in {} |-> <<>>]
    /\ conversation_history = <<>>
    /\ active_entities = {}
    /\ last_insights_surfaced = <<>>
    /\ out = [op |-> "none"]

\* add_insight(insight), the sets iterated in the orders eo and to.
FullAddInsight(insight, eo, to) ==
    /\ table' = InsertOrReplace(table, FullRowOf(insight, eo, to))
    /\ latest' = [id \in DOMAIN latest \cup {insight.id} |->
                    IF id = insight.id THEN <<insight>> ELSE latest[id]]
    /\ out' = [op |-> "add_insight", key |-> insight.id, insight |-> insight]
    /\ UNCHANGED <<poolVars, chatVars>>

\* retrieve_contextual_insights(user_input) with the default max_insights.
FullRetrieve(user_input, now) ==
    /\ out' = [op |-> "retrieve", key |-> user_input, now |-> now,
               triggers |-> FullDetected(user_input),
               value |-> FullRetrieveContextualInsights(table, user_input, 5, now)]
    /\ UNCHANGED <<poolVars, table, latest,
                   chatVars>>

NextFull ==
    \/ \E id \in FullIdSet : \E insight \in FullInsights(id) :
          \E eo \in Orders(insight.entities), to \in Orders(insight.themes) :
             FullAddInsight(insight, eo, to)
    \/ \E user_input \in FullQueries, now \in Nows : FullRetrieve(user_input, now)

SpecFull == InitFull /\ [][NextFull]_vars

\* ------------------------------------------------------------- properties

\* A token the comma-delimited encoding is meant for: not empty, no comma.
ValidToken(t) == t # <<>> /\ \A k \in DOMAIN t : t[k] # ","

ValidInsight(i) ==
    \A t \in i.entities \cup i.themes \cup Range(i.supersedes) : ValidToken(t)

\* C2: round trip.  For every valid Insight i last ingested under its id and
\* every entity e of i, the list _get_insights_by_entity(e) returns holds a
\* record equal to i in every field.
C2_RoundTrip ==
    \A id \in DOMAIN latest :
        LET i == latest[id][1]
        IN  ValidInsight(i) =>
              \A e \in i.entities :
                  \E k \in DOMAIN GetInsightsByEntity(table, e) :
                      GetInsightsByEntity(table, e)[k] = i

\* C2 witness: a lookup has returned, equal in every field, an ingested
\* Insight with two entities, two themes, a sub-second timestamp, two
\* superseded ids and a superseded_by.
C2_Witness ==
    /\ out.op = "lookup"
    /\ \E k \in DOMAIN out.value :
          LET i == out.value[k]
          IN  /\ i.id \in DOMAIN latest
              /\ latest[i.id][1] = i
              /\ Cardinality(i.entities) = 2
              /\ Cardinality(i.themes) = 2
              /\ i.timestamp.frac # 0
              /\ Len(i.supersedes) = 2
              /\ i.superseded_by # None

\* C3: upsert by id.  The table holds at most one row per id, the row is the
\* one the most recent add_insight under that id wrote, and every lookup
\* shows, for each id, only the content last ingested.
C3_UpsertById ==
    /\ \A j, k \in DOMAIN table : table[j].id = table[k].id => j = k
    /\ \A id \in DOMAIN latest :
          \E k \in DOMAIN table :
              \E eo \in Orders(latest[id][1].entities),
                 to \in Orders(latest[id][1].themes) :
                  table[k] = RowOf(latest[id][1], eo, to)
    /\ \A e \in LookupKeys :
          \A k \in DOMAIN GetInsightsByEntity(table, e) :
              LET i == GetInsightsByEntity(table, e)[k]
              IN  i.content = latest[i.id][1].content

\* C3 witness: an add_insight has just replaced a row of the same id that had
\* another content, and the table holds the new content alone.
C3_Witness ==
    /\ out.op = "add_insight"
    /\ out.replaced
    /\ \E k \in DOMAIN table :
          /\ table[k].id = out.key
          /\ table[k].content = content_new
          /\ \A j \in DOMAIN table : table[j].id = out.key => j = k

\* C9: exact membership.  A lookup of X returns exactly the stored records
\* whose entities set holds the token X.
C9_ExactMembership ==
    out.op = "lookup" =>
        Range(out.value) =
            {InsightOfRow(table[k]) :
                k \in {j \in DOMAIN table : out.key \in DecodeSet(table[j].entities)}}

\* str.strip() leaves nothing of the text.
IsBlank(text) == \A k \in DOMAIN text : text[k] = " "

\* C10: retrieve with an empty or all-whitespace query, or a query that
\* activates no trigger, returns three empty tiers whatever the table holds.
C10_NoTriggerEmptyTiers ==
    (out.op = "retrieve" /\ (IsBlank(out.key) \/ Detected(out.key) = <<>>))
        => out.value = EmptyTiers

\* C10 witness: such a retrieve returned empty tiers from a table in which a
\* query that does activate a trigger finds a record.
C10_Witness ==
    /\ out.op = "retrieve"
    /\ out.key = query_weather
    /\ out.value = EmptyTiers
    /\ \E now \in Nows :
          RetrieveContextualInsights(table, query_trusting, 5, now).surface # <<>>

\* The record thread p ingested is found, equal in every field, by a lookup
\* of each of its entities.
Retrievable(p) ==
    \A e \in InsightOf(p).entities :
        \E k \in DOMAIN GetInsightsByEntity(table, e) :
            GetInsightsByEntity(table, e)[k] = InsightOf(p)

AllIngest == \A p \in Callers : kind[p] = "add_insight"

\* C1 as claimed: when all the NumCallers > 2 * pool_size parallel callers run
\* add_insight, no call fails.
C1_NoCallFails ==
    AllIngest => \A p \in Callers : pc[p] = "done" => result[p] = "ok"

C1_Settled ==
    \A p \in Callers :
        /\ pc[p] = "done"
        /\ kind[p] = "add_insight" =>
              \/ result[p] = "ok" /\ Retrievable(p)
              \/ result[p] = "Empty"

\* C1 as amended: every one of the parallel calls ends; each add_insight call
\* either succeeds, and its record is retrievable from then on, or fails with
\* the queue.Empty of a timed wait that no release answered.
C1_EventuallySettled == <>[]C1_Settled

\* C1 witness: the parallel callers all ran add_insight, the burst cap was
\* reached, all succeeded and every record is retrievable.
C1_Witness ==
    /\ AllIngest
    /\ created_connections = 2 * pool_size
    /\ \A p \in Callers : pc[p] = "done" /\ result[p] = "ok" /\ Retrievable(p)

\* A call whose acquisition failed: it ended without running its with-block.
AcquisitionFailed(p) == pc[p] = "done" /\ result[p] \notin {"ok", "raised"}

\* C4: an acquisition that times out fails with a PoolExhausted error, and the
\* caller's with-block is not run.
C4_PoolExhausted ==
    \A p \in Callers :
        AcquisitionFailed(p) =>
            /\ result[p] = "PoolExhausted"
            /\ \A k \in DOMAIN table : table[k].id # InsightOf(p).id

\* C5: the pool has created at most 2 * pool_size connections.
C5_CreatedAtMostBurstCap ==
    /\ created_connections <= 2 * pool_size
    /\ Cardinality({c \in ConnIds : connState[c] # "unborn"}) <= 2 * pool_size

\* C5 witness: the cap is reached and a further caller is in the timed wait
\* while another holds a connection.
C5_Witness ==
    /\ created_connections = 2 * pool_size
    /\ \E p, q \in Callers : pc[p] = "wait" /\ pc[q] = "body"

\* The calls that have obtained a connection so far.
Acquired == {p \in Procs : pc[p] \in {"body", "release"} \/ (pc[p] = "done" /\ ~AcquisitionFailed(p))}

\* C6: right after construction the idle queue holds pool_size connections,
\* and the first pool_size acquisitions create no connection.
C6_PreCreatedIdle ==
    /\ Acquired = {} => Len(pool) = pool_size
    /\ Cardinality(Acquired) <= pool_size => created_connections = pool_size

\* C7: when a with-block has ended, normally or by raising, its connection is
\* no longer borrowed; every open connection is idle or borrowed by a caller
\* inside its block; and no idle connection has an uncommitted transaction.
C7_ReleasedAndRolledBack ==
    /\ \A p \in Procs : conn[p] # 0 => pc[p] \in {"body", "release"}
    /\ \A c \in ConnIds :
          connState[c] = "open" =>
              \/ \E k \in DOMAIN pool : pool[k] = c
              \/ \E p \in Procs : conn[p] = c
    /\ \A k \in DOMAIN pool :
          connState[pool[k]] = "open" /\ ~inTransaction[pool[k]]

\* C7 witness: a with-block raised with a transaction open, and its
\* connection is back in the idle queue.
C7_Witness ==
    \E p \in Callers :
        /\ kind[p] = "begin_raise"
        /\ pc[p] = "done"
        /\ result[p] = "raised"
        /\ pool # <<>>

\* C8: a connection whose release failed never re-enters the idle queue, and
\* a caller that enters get_connection while no connection is borrowed can
\* obtain one: one is idle or one more may be created.
C8_DiscardThenTopUp ==
    /\ \A k \in DOMAIN pool : connState[pool[k]] # "closed"
    /\ \A p \in Callers :
          (pc[p] = "get_nowait" /\ \A q \in Procs : conn[q] = 0)
              => (pool # <<>> \/ BurstAllowed)

\* ------------------------------------- retrieval of the pooled system

\* The three tiers of a result, one after another.
AllTiers(tiers) == tiers.surface \o tiers.mid \o tiers.deep

\* C11: with a table that holds exactly one Insight, an anchor tagged with
\* entity A, effectiveness 1.0 and age 0 days, retrieving for
\* "I'm worried about trusting A" returns that Insight in the surface tier
\* and leaves the mid and deep tiers empty.
C11_TrustingAExample ==
    ( /\ out.op = "retrieve"
      /\ out.key = query_trusting
      /\ Len(table) = 1
      /\ InsightOfRow(table[1]).insight_type = "anchor"
      /\ InsightOfRow(table[1]).entities = {tok_A}
      /\ InsightOfRow(table[1]).effectiveness_score = 10
      /\ AgeDays(out.now, InsightOfRow(table[1]).timestamp) = 0 )
        => /\ out.value.surface = <<InsightOfRow(table[1])>>
           /\ out.value.mid = <<>>
           /\ out.value.deep = <<>>

\* C13: detection is complete and case-insensitive.  For every trigger of the
\* table, a text in which the trigger's entity name or one of its keywords
\* appears, in any letter case, makes detect_context_triggers return the
\* trigger's topic.
C13_DetectionComplete ==
    out.op = "detect" =>
        \A j \in DOMAIN semantic_triggers :
            LET trigger == semantic_triggers[j].trigger
            IN  ( \/ Contains(Lower(out.key), Lower(trigger.entity))
                  \/ \E keyword \in trigger.keywords :
                        Contains(Lower(out.key), Lower(keyword)) )
                    => trigger.entity \in Range(out.value)

\* C14: deduplication.  No two records of a result, the three tiers taken
\* together, have the same content key, and a record that was kept does not
\* sort below a candidate with the same content key.
C14_Deduplicated ==
    out.op = "retrieve" =>
        LET returned == AllTiers(out.value)
            candidates == AllInsights(table, Detected(out.key))
        IN  /\ \A j, k \in DOMAIN returned :
                  ContentKey(returned[j].content) = ContentKey(returned[k].content)
                      => j = k
            /\ \A j \in DOMAIN returned : \A k \in DOMAIN candidates :
                  ContentKey(returned[j].content) = ContentKey(candidates[k].content)
                      => ~KeyGreater(candidates[k], returned[j], out.now)

\* C15: every record of a result is in exactly one tier, and the tier is the
\* one the rule surface, then mid, then deep gives for its type, score and
\* age; the stored layer does not decide.
C15_TierByRule ==
    out.op = "retrieve" =>
        /\ \A j, k \in DOMAIN AllTiers(out.value) :
              AllTiers(out.value)[j].id = AllTiers(out.value)[k].id => j = k
        /\ \A tier \in {"surface", "mid", "deep"} :
              \A k \in DOMAIN out.value[tier] :
                  LayerOf(out.value[tier][k], out.now) = tier

\* C19: every row of the table has an effectiveness_score within [0, 1]
\* (in tenths: within 0..10).
C19_ScoreInUnitInterval ==
    \A k \in DOMAIN table :
        0 <= table[k].effectiveness_score /\ table[k].effectiveness_score <= 10

\* ------------------------------------------------------- the /add route

\* A score the route is meant to refuse: not a JSON number, or a number
\* outside [0, 1].
MalformedScore(score) ==
    \/ score.type \in {"str", "NoneType", "bool"}
    \/ score.type \in {"int", "float"} /\ ~(0 <= score.val /\ score.val <= 10)

\* C20: an authorised request to /add with empty content, with content of
\* more than 2000 characters or with a malformed effectiveness score is
\* answered with the validation error, without a connection being acquired
\* or a row written.
C20_RejectedBeforeStorage ==
    ( /\ out.op = "api_add"
      /\ VerifyAccessToken(out.token)
      /\ \/ out.request.content = <<>>
         \/ Len(out.request.content) > 2000
         \/ MalformedScore(out.request.effectiveness_score) )
        => out.status = 400 /\ ~out.acquired /\ ~out.written

\* ------------------------------ retrieval of ContextualInsightRetrieval

NotEarlier(a, b) ==
    \/ a.timestamp.day > b.timestamp.day
    \/ a.timestamp.day = b.timestamp.day /\ a.timestamp.frac >= b.timestamp.frac

\* C17: within each tier of a result the records are in descending order of
\* final_score, and of two records with the same final_score the one with
\* the more recent timestamp comes first.
C17_OrderedByScoreThenRecency ==
    out.op = "retrieve" =>
        \A tier \in {"surface", "mid", "deep"} :
            \A j, k \in DOMAIN out.value[tier] :
                j < k =>
                    /\ out.value[tier][j].final_score >= out.value[tier][k].final_score
                    /\ out.value[tier][j].final_score = out.value[tier][k].final_score
                          => NotEarlier(out.value[tier][j], out.value[tier][k])

\* C18: add_insight assesses the effectiveness exactly when the caller passed
\* no score: a score that was passed (one other than the default of the
\* dataclass) is stored as it is, and otherwise the assessed value is stored.
C18_HeuristicIffNoScore ==
    out.op = "add_insight" =>
        \A k \in DOMAIN table :
            table[k].id = out.key =>
                table[k].effectiveness_score =
                    IF out.insight.effectiveness_score # 0
                    THEN out.insight.effectiveness_score
                    ELSE AssessStrategyEffectiveness(out.insight.content)

\* ---------------------------------------------------------------------
\* ConnectionPool.close_all, run while threads still use the pool.

\* One turn of the loop of close_all: get_nowait() takes the head of the
\* queue and conn.close() closes it.
CloseAllStep ==
    /\ pc[Constructor] = "done"
    /\ pool # <<>>
    /\ connState' = [connState EXCEPT ![Head(pool)] = "closed"]
    /\ pool' = Dequeue(pool)
    /\ UNCHANGED <<created_connections, lock, inTransaction, pc, kind, conn,
                   result, table, latest, out,
                   chatVars>>

NextClose == CloseAllStep \/ InitDatabaseBody \/ \E p \in Procs : ProcNext(p)

SpecClose == Init /\ [][NextClose]_vars

\* The connections that some thread holds between the yield and the end of
\* the finally clause.
Borrowed == {conn[p] : p \in {q \in Procs : conn[q] # 0}}

\* C28: every connection is idle at most once, or borrowed by exactly one
\* caller, or closed (a connection the constructor created and kept no
\* reference to is closed by its deallocation); an idle connection is open
\* and not borrowed, and no two callers hold the same connection.
C28_ExclusiveOwnership ==
    /\ \A i, j \in DOMAIN pool : i # j => pool[i] # pool[j]
    /\ \A p, q \in Procs : (p # q /\ conn[p] # 0) => conn[p] # conn[q]
    /\ Range(pool) \cap Borrowed = {}
    /\ \A c \in Range(pool) : connState[c] = "open"
    /\ \A c \in ConnIds : connState[c] = "open" => c \in Range(pool) \cup Borrowed

\* close_all closed the connection that a caller had borrowed and put back
\* (no caller closes a connection itself).
C28_Witness ==
    /\ \E c \in ConnIds : connState[c] = "closed"
    /\ \A p \in Callers : kind[p] # "close_conn"
    /\ \E p \in Callers : pc[p] = "done" /\ result[p] = "ok"

\* The pool with callers whose with-block either ingests or closes the
\* connection, every thread running on and every timed wait ending.
AcquireNext(p) ==
    \/ \E k \in {"add_insight", "close_conn"} : Call(p, k)
    \/ TryGet(p)
    \/ LockedAcquire(p)
    \/ WaitGet(p)
    \/ WaitTimeout(p)
    \/ AddInsightBody(p)
    \/ CloseConnBody(p)
    \/ Release(p)

NextAcquire == InitDatabaseBody \/ \E p \in Procs : AcquireNext(p)

LiveAcquire ==
    /\ Init /\ [][NextAcquire]_vars
    /\ WF_vars(InitDatabaseBody) /\ \A p \in Procs : WF_vars(AcquireNext(p))

\* A thread is inside the acquisition part of get_connection.
Acquiring(p) == pc[p] \in {"get_nowait", "lock", "wait"}

\* C29: every call of get_connection leaves the acquisition, by reaching
\* its with-block or by raising (each thread calls once, so from some point
\* on no thread is acquiring), and the pool lock is only ever held by the
\* thread that is in the timed wait.
C29_AcquisitionTerminates ==
    /\ <>[](\A p \in Procs : ~Acquiring(p))
    /\ [](\A p \in Procs : p \in lock <=> pc[p] = "wait")

\* A thread is in the timed wait, holding the lock, while another thread
\* waits for the lock and a third holds the connection.
C29_Witness ==
    \E p, q, r \in Procs :
        /\ pc[p] = "wait" /\ lock = {p}
        /\ pc[q] = "lock"
        /\ pc[r] \in {"body", "release"} /\ conn[r] # 0

\* C30: the connections that are idle or borrowed are never more than
\* pool_size, so a release of an open connection finds room in the queue.
C30_ReleaseFindsRoom ==
    /\ Cardinality(Range(pool) \cup Borrowed) <= pool_size
    /\ \A p \in Procs :
          (pc[p] = "release" /\ connState[conn[p]] # "closed") => Len(pool) < pool_size

\* The burst budget is used up and a caller has put its connection back
\* into a queue that is now full.
C30_Witness ==
    /\ created_connections = 2 * pool_size
    /\ Len(pool) = pool_size
    /\ \E p \in Callers : pc[p] = "done" /\ result[p] = "ok"

\* The ids of the rows of a table.
StoredIds(tbl) == {tbl[k].id : k \in DOMAIN tbl}

\* C21: no step of ingest, retrieve, lookup or (repeated) schema
\* initialisation removes a record: the set of stored ids never loses an
\* element.
C21_NoRecordRemoved == [][StoredIds(table) \subseteq StoredIds(table')]_vars

\* The schema initialisation ran again on a store holding two records, one
\* of them written by a replacing ingest.
C21_Witness ==
    /\ out.op = "init_database"
    /\ StoredIds(table) = IdSet
    /\ \E k \in DOMAIN table : table[k].content = content_new

\* C22: every stored record whose superseded_by is not null names the id
\* of a stored record.
C22_SupersededByExists ==
    \A k \in DOMAIN table :
        table[k].superseded_by # None => table[k].superseded_by \in StoredIds(table)

\* The trigger objects whose entity is the activated name.
TriggerNamed(name) ==
    semantic_triggers[CHOOSE k \in DOMAIN semantic_triggers :
                         semantic_triggers[k].trigger.entity = name].trigger

\* C23: each activated trigger contributes at most its max_surface_insights
\* records to the surface tier of a result.
C23_SurfacePerTrigger ==
    out.op = "retrieve" =>
        \A k \in DOMAIN Detected(out.key) :
            LET name == Detected(out.key)[k]
                found == Range(GetInsightsByEntity(table, name))
            IN  Cardinality({j \in DOMAIN out.value.surface :
                               out.value.surface[j] \in found})
                   <= TriggerNamed(name).max_surface_insights

\* ---------------------------------------------------------------------
\* TemporalWeight.calculate_weight on its own.

\* The largest age, in days, of the dates the weight is computed for.
MaxAgeDays == 160

\* The clock reading and the insight dates: from three days after the clock
\* reading back to MaxAgeDays before it, at midnight or later in the day.
WeightNow == [day |-> MaxAgeDays, frac |-> 0]
WeightDates == {[day |-> d, frac |-> f] : d \in 0..(MaxAgeDays + 3), f \in {0, 5}}

\* The two insight dates and the clock reading of one run.
InitWeight ==
    /\ created_connections = 0
    /\ pool = <<>>
    /\ lock = {}
    /\ connState = [c \in ConnIds |-> "unborn"]
    /\ inTransaction = [c \in ConnIds |-> FALSE]
    /\ pc = [p \in Procs |-> "start"]
    /\ kind = [p \in Procs |-> "none"]
    /\ conn = [p \in Procs |-> 0]
    /\ result = [p \in Procs |-> "none"]
    /\ table = <<>>
    /\ latest = [id \in {} |-> <<>>]
    /\ conversation_history = <<>>
    /\ active_entities = {}
    /\ last_insights_surfaced = <<>>
    /\ \E a \in WeightDates, b \in {d \in WeightDates : d.frac = 0} :
          out = [op |-> "dates", current_date |-> WeightNow, a |-> a, b |-> b]

\* calculate_weight(a, current_date) and calculate_weight(b, current_date).
CalculateWeights ==
    /\ out.op = "dates"
    /\ out' = [op |-> "calculate_weight", current_date |-> out.current_date,
               a |-> out.a, b |-> out.b,
               weight_a |-> CalculateWeight(out.a, out.current_date),
               weight_b |-> CalculateWeight(out.b, out.current_date)]
    /\ UNCHANGED <<poolVars, table, latest,
                   chatVars>>

NextWeight == CalculateWeights

SpecWeight == InitWeight /\ [][NextWeight]_vars

\* C25: the temporal weight is 1.0 up to an age of 30 days, does not
\* increase with the age from 30 days on, and is always within [0.1, 1.0].
C25_TemporalWeight ==
    out.op = "calculate_weight" =>
        LET age_a == AgeDays(out.current_date, out.a)
            age_b == AgeDays(out.current_date, out.b)
        IN  /\ out.weight_a >= 100000 /\ out.weight_a <= 1000000
            /\ age_a <= 30 => out.weight_a = 1000000
            /\ (30 <= age_a /\ age_a <= age_b) => out.weight_b <= out.weight_a

\* The weight of a 31 days old insight is below 1.0 and above that of one
\* old enough to be held at the floor of 0.1.
C25_Witness ==
    /\ out.op = "calculate_weight"
    /\ AgeDays(out.current_date, out.a) = 31
    /\ out.weight_a < 1000000
    /\ out.weight_b = 100000
    /\ out.weight_b < out.weight_a

\* ---------------------------------------------------------------------
\* The entity names of claude_memory_client.py.

\* ENTITY_MAPPING: short-form to descriptive names.
ENTITY_MAPPING ==
    (<<"A">> :> <<"p","a","r","t","n","e","r","_","A">>) @@ (<<"N">> :> <<"c","h","i","l","d","_","N">>) @@
    (<<"X">> :> <<"e","x","_","X">>) @@ (<<"b","e","c","k">> :> <<"s","e","l","f","_","b","e","c","k">>)

\* REVERSE_ENTITY_MAPPING = {v: k for k, v in ENTITY_MAPPING.items()}
REVERSE_ENTITY_MAPPING ==
    [v \in {ENTITY_MAPPING[k] : k \in DOMAIN ENTITY_MAPPING} |->
        CHOOSE k \in DOMAIN ENTITY_MAPPING : ENTITY_MAPPING[k] = v]

\* A normalisation that returns every name as given.
NormalizeEntityUnmapped(entity) == entity

\* normalize_entity(entity)
NormalizeEntity(entity) ==
    IF entity \in DOMAIN REVERSE_ENTITY_MAPPING THEN entity
    ELSE IF entity \in DOMAIN ENTITY_MAPPING THEN ENTITY_MAPPING[entity]
    ELSE entity

\* denormalize_entity(entity): REVERSE_ENTITY_MAPPING.get(entity, entity)
DenormalizeEntity(entity) ==
    IF entity \in DOMAIN REVERSE_ENTITY_MAPPING THEN REVERSE_ENTITY_MAPPING[entity]
    ELSE entity

\* The names passed in: the short and the descriptive names, and names of
\* neither kind (other case, padded, empty, topic names).
EntityNames == {
    <<"A">>,
    <<"N">>,
    <<"X">>,
    <<"b","e","c","k">>,
    <<"p","a","r","t","n","e","r","_","A">>,
    <<"c","h","i","l","d","_","N">>,
    <<"e","x","_","X">>,
    <<"s","e","l","f","_","b","e","c","k">>,
    <<"a">>,
    <<"B","e","c","k">>,
    <<>>,
    <<"p","a","r","t","n","e","r","_","a">>,
    <<"A","N">>,
    <<" ","A">>,
    <<"i","n","t","e","r","n","a","l","_","v","o","i","c","e">>,
    <<"t","r","a","u","m","a","_","r","e","s","p","o","n","s","e","s">>,
    <<"s","e","l","f">>,
    <<"p","a","r","t","n","e","r">>,
    <<"N"," ">>,
    <<"x">> }

\* How many conversions are applied one after another.
MaxConversions == 2

InitNames ==
    /\ created_connections = 0
    /\ pool = <<>>
    /\ lock = {}
    /\ connState = [c \in ConnIds |-> "unborn"]
    /\ inTransaction = [c \in ConnIds |-> FALSE]
    /\ pc = [p \in Procs |-> "start"]
    /\ kind = [p \in Procs |-> "none"]
    /\ conn = [p \in Procs |-> 0]
    /\ result = [p \in Procs |-> "none"]
    /\ table = <<>>
    /\ latest = [id \in {} |-> <<>>]
    /\ conversation_history = <<>>
    /\ active_entities = {}
    /\ last_insights_surfaced = <<>>
    /\ \E entity \in EntityNames :
          out = [op |-> "entity", calls |-> <<>>, values |-> <<entity>>]

\* normalize_entity applied to the last value.
Normalize ==
    /\ out.op = "entity"
    /\ Len(out.calls) < MaxConversions
    /\ out' = [out EXCEPT !.calls = Append(@, "normalize"),
                          !.values = Append(@, NormalizeEntity(out.values[Len(out.values)]))]
    /\ UNCHANGED <<poolVars, table, latest,
                   chatVars>>

\* denormalize_entity applied to the last value.
Denormalize ==
    /\ out.op = "entity"
    /\ Len(out.calls) < MaxConversions
    /\ out' = [out EXCEPT !.calls = Append(@, "denormalize"),
                          !.values = Append(@, DenormalizeEntity(out.values[Len(out.values)]))]
    /\ UNCHANGED <<poolVars, table, latest,
                   chatVars>>

NextNames == Normalize \/ Denormalize

SpecNames == InitNames /\ [][NextNames]_vars

ShortNames == {<<"A">>, <<"N">>, <<"X">>, <<"b","e","c","k">>}
DescriptiveNames ==
    {<<"p","a","r","t","n","e","r","_","A">>, <<"c","h","i","l","d","_","N">>,
     <<"e","x","_","X">>, <<"s","e","l","f","_","b","e","c","k">>}

\* C24: both conversions are defined on every name; on the mapped names
\* they are inverse to each other (a short name normalised and then
\* denormalised is itself, a descriptive name denormalised and then
\* normalised is itself); normalising twice gives what normalising once
\* gives; a name that is neither short nor descriptive is returned unchanged
\* by both.
C24_EntityNames ==
    out.op = "entity" =>
        /\ \A k \in 1..Len(out.calls) :
              /\ out.values[1] \in ShortNames /\ out.calls[k] = "normalize" /\ k = 1
                    => out.values[2] \in DescriptiveNames
              /\ out.values[1] \in DescriptiveNames /\ out.calls[k] = "denormalize" /\ k = 1
                    => out.values[2] \in ShortNames
              /\ out.values[1] \notin ShortNames \cup DescriptiveNames
                    => out.values[k + 1] = out.values[1]
        /\ \A k \in 1..(Len(out.calls) - 1) :
              /\ (out.values[k] \in ShortNames
                    /\ out.calls[k] = "normalize" /\ out.calls[k + 1] = "denormalize")
                    => out.values[k + 2] = out.values[k]
              /\ (out.values[k] \in DescriptiveNames
                    /\ out.calls[k] = "denormalize" /\ out.calls[k + 1] = "normalize")
                    => out.values[k + 2] = out.values[k]
              /\ (out.calls[k] = "normalize" /\ out.calls[k + 1] = "normalize")
                    => out.values[k + 2] = out.values[k + 1]

\* "beck" was normalised to "self_beck" and denormalised back.
C24_Witness ==
    /\ out.op = "entity"
    /\ out.calls = <<"normalize", "denormalize">>
    /\ out.values = << <<"b","e","c","k">>, <<"s","e","l","f","_","b","e","c","k">>, <<"b","e","c","k">> >>

\* The tokens the service accepts: the HMAC of an allowed directory or of
\* the server's directory.
AcceptedTokens ==
    { [type |-> "hmac_sha256", text |-> "/Users/beck/Documents"],
      [type |-> "hmac_sha256", text |-> "/srv/memory"] }

IsWordChar(ch) ==
    \/ \E k \in DOMAIN LowerCase : ch = LowerCase[k] \/ ch = UpperCase[k]
    \/ \E k \in DOMAIN Digits : ch = Digits[k]
    \/ ch = "_"

\* s holds sub at the positions i+1 .. i+Len(sub).
OccursAt(s, sub, i) ==
    /\ i >= 0 /\ i + Len(sub) <= Len(s)
    /\ \A j \in 1..Len(sub) : s[i + j] = sub[j]

\* re.search(pattern, text, re.IGNORECASE); "." matches every character but
\* the newline, which no text passed in holds.
ReSearch(pattern, text) ==
    LET s == Lower(text)
        a == Lower(pattern.a)
        b == Lower(pattern.b)
    IN  IF pattern.kind = "literal" THEN Contains(s, a)
        ELSE IF pattern.kind = "word" THEN
            \E i \in 0..(Len(s) - Len(a)) :
                /\ OccursAt(s, a, i)
                /\ i = 0 \/ ~IsWordChar(s[i])
                /\ i + Len(a) = Len(s) \/ ~IsWordChar(s[i + Len(a) + 1])
        ELSE \E i \in 0..Len(s), j \in 0..Len(s) :
                /\ OccursAt(s, a, i)
                /\ j >= i + Len(a)
                /\ OccursAt(s, b, j)

high_confidence_triggers == <<
    [kind |-> "word", a |-> <<"A">>, b |-> <<>>],
    [kind |-> "literal", a |-> <<"t","r","u","s","t","i","n","g"," ","A">>, b |-> <<>>],
    [kind |-> "then", a |-> <<"t","r","u","s","t">>, b |-> <<"A">>],
    [kind |-> "literal", a |-> <<"r","e","l","a","t","i","o","n","s","h","i","p"," ","w","i","t","h"," ","A">>, b |-> <<>>],
    [kind |-> "word", a |-> <<"N">>, b |-> <<>>],
    [kind |-> "literal", a |-> <<"p","a","r","e","n","t","i","n","g">>, b |-> <<>>],
    [kind |-> "then", a |-> <<"b","o","u","n","d","a","r","i","e","s">>, b |-> <<"N">>],
    [kind |-> "literal", a |-> <<"s","c","h","o","o","l">>, b |-> <<>>],
    [kind |-> "word", a |-> <<"X">>, b |-> <<>>],
    [kind |-> "literal", a |-> <<"X","'","s"," ","v","o","i","c","e">>, b |-> <<>>],
    [kind |-> "literal", a |-> <<"t","r","a","u","m","a"," ","r","e","s","p","o","n","s","e">>, b |-> <<>>],
    [kind |-> "literal", a |-> <<"t","r","i","g","g","e","r","e","d">>, b |-> <<>>],
    [kind |-> "literal", a |-> <<"s","t","r","a","t","e","g","i","e","s">>, b |-> <<>>],
    [kind |-> "literal", a |-> <<"w","h","a","t"," ","w","o","r","k","e","d">>, b |-> <<>>],
    [kind |-> "then", a |-> <<"h","e","l","p">>, b |-> <<"w","i","t","h">>] >>

medium_confidence_triggers == <<
    [kind |-> "literal", a |-> <<"t","r","u","s","t">>, b |-> <<>>],
    [kind |-> "literal", a |-> <<"b","o","u","n","d","a","r","i","e","s">>, b |-> <<>>],
    [kind |-> "literal", a |-> <<"t","r","a","u","m","a">>, b |-> <<>>],
    [kind |-> "literal", a |-> <<"a","c","t","i","v","a","t","i","o","n">>, b |-> <<>>],
    [kind |-> "literal", a |-> <<"n","e","r","v","o","u","s"," ","s","y","s","t","e","m">>, b |-> <<>>],
    [kind |-> "literal", a |-> <<"s","h","u","t","d","o","w","n">>, b |-> <<>>],
    [kind |-> "literal", a |-> <<"h","y","g","i","e","n","e">>, b |-> <<>>],
    [kind |-> "literal", a |-> <<"s","h","o","w","e","r">>, b |-> <<>>],
    [kind |-> "literal", a |-> <<"a","n","g","e","r">>, b |-> <<>>],
    [kind |-> "literal", a |-> <<"s","t","r","u","c","t","u","r","e">>, b |-> <<>>],
    [kind |-> "literal", a |-> <<"d","i","s","c","i","p","l","i","n","e">>, b |-> <<>>] >>

emotional_triggers == <<
    [kind |-> "literal", a |-> <<"w","o","r","r","i","e","d">>, b |-> <<>>],
    [kind |-> "literal", a |-> <<"s","c","a","r","e","d">>, b |-> <<>>],
    [kind |-> "literal", a |-> <<"a","n","x","i","o","u","s">>, b |-> <<>>],
    [kind |-> "literal", a |-> <<"o","v","e","r","w","h","e","l","m","e","d">>, b |-> <<>>],
    [kind |-> "literal", a |-> <<"s","t","r","u","g","g","l","i","n","g">>, b |-> <<>>],
    [kind |-> "literal", a |-> <<"d","i","f","f","i","c","u","l","t">>, b |-> <<>>],
    [kind |-> "literal", a |-> <<"h","a","r","d">>, b |-> <<>>],
    [kind |-> "literal", a |-> <<"c","h","a","l","l","e","n","g","i","n","g">>, b |-> <<>>] >>

\* sum(1 for pattern in patterns if re.search(pattern, user_input, ...))
MatchCount(patterns, user_input) ==
    Cardinality({k \in DOMAIN patterns : ReSearch(patterns[k], user_input)})

\* _should_surface_insights(user_input): the decision and the confidence, in
\* tenths.
ShouldSurfaceInsights(user_input) ==
    IF \E k \in DOMAIN high_confidence_triggers :
          ReSearch(high_confidence_triggers[k], user_input)
    THEN [surface |-> TRUE, confidence |-> 9]
    ELSE IF MatchCount(medium_confidence_triggers, user_input) >= 2
    THEN [surface |-> TRUE, confidence |-> 7]
    ELSE IF MatchCount(medium_confidence_triggers, user_input) = 1
    THEN [surface |-> TRUE, confidence |-> 5]
    ELSE IF MatchCount(emotional_triggers, user_input) >= 1 /\ Len(user_input) > 50
    THEN [surface |-> TRUE, confidence |-> 3]
    ELSE [surface |-> FALSE, confidence |-> 0]

crisis_keywords == <<
    <<"c","r","i","s","i","s">>,
    <<"e","m","e","r","g","e","n","c","y">>,
    <<"p","a","n","i","c">>,
    <<"o","v","e","r","w","h","e","l","m","e","d">>,
    <<"c","a","n","'","t"," ","h","a","n","d","l","e">>,
    <<"f","a","l","l","i","n","g"," ","a","p","a","r","t">>,
    <<"b","r","e","a","k","i","n","g"," ","d","o","w","n">>,
    <<"t","o","o"," ","m","u","c","h">>,
    <<"s","p","i","r","a","l">> >>

intensity_markers == <<
    <<"r","e","a","l","l","y">>,
    <<"s","o">>,
    <<"v","e","r","y">>,
    <<"e","x","t","r","e","m","e","l","y">>,
    <<"c","o","m","p","l","e","t","e","l","y">> >>

\* CrisisMode.detect_crisis(user_input)
DetectCrisis(user_input) ==
    LET user_lower == Lower(user_input)
        crisis_count == Cardinality({k \in DOMAIN crisis_keywords :
                                       Contains(user_lower, crisis_keywords[k])})
        intensity_count == Cardinality({k \in DOMAIN intensity_markers :
                                          Contains(user_lower, intensity_markers[k])})
    IN  crisis_count >= 1 \/ (intensity_count >= 2 /\ Len(user_input) > 100)

\* The decisions on the texts passed to chat, computed once.
ChatDecisionTable ==
    [user_input \in ChatInputs |->
        [crisis |-> DetectCrisis(user_input),
         surface |-> ShouldSurfaceInsights(user_input).surface]]

\* CrisisMode.get_crisis_anchors(context)
GetCrisisAnchors(tbl, context, now) ==
    LET insights == FullRetrieveContextualInsights(
                        tbl, context \o crisis_anchor_suffix, 10, now)
        crisis_anchors ==
            SelectSeq(insights.surface \o insights.mid \o insights.deep,
                      LAMBDA insight : \/ insight.insight_type = "anchor"
                                       \/ insight.effectiveness_score > 8)
    IN  Take(SortByKey(crisis_anchors, now), 3)

\* for layer_insights in insights.values(): for insight in layer_insights
TierItems(insights) == insights.surface \o insights.mid \o insights.deep

\* The entities of the insights of all tiers.
EntitiesOf(insights) ==
    UNION {TierItems(insights)[k].entities : k \in DOMAIN TierItems(insights)}

\* _update_active_entities(insights), conversation_history being history.
UpdateActiveEntities(entities, insights, history) ==
    IF Len(history) > 20 THEN {} ELSE entities \cup EntitiesOf(insights)

\* get_conversation_summary() without recent_themes.
ConversationSummary(entities, history, surfaced) ==
    [active_entities |-> entities,
     conversation_length |-> Len(history),
     last_insights_count |-> Len(surfaced)]

\* The number of entries conversation_history is let grow to.
MaxTurns == 21

\* The ids ingested before and between the chat calls.
ChatIdSet == {Id(1), Id(3)}

\* InsightAPI.chat(user_input): the crisis response, or
\* ConversationFlow.process_user_input and the summary of the conversation.
Chat(user_input, now) ==
    IF ChatDecisionTable[user_input].crisis
    THEN /\ out' = [op |-> "chat", key |-> user_input, now |-> now,
                    mode |-> "crisis", surfaced |-> FALSE,
                    raw_insights |-> GetCrisisAnchors(table, user_input, now),
                    conversation_state |->
                        ConversationSummary(active_entities, conversation_history,
                                            last_insights_surfaced)]
         /\ UNCHANGED <<poolVars, table, latest, chatVars>>
    ELSE LET history == Append(conversation_history, "user")
             surface == ChatDecisionTable[user_input].surface
             insights == FullRetrieveContextualInsights(table, user_input, 5, now)
             entities == IF surface
                         THEN UpdateActiveEntities(active_entities, insights, history)
                         ELSE active_entities
             surfaced == IF surface THEN insights.surface ELSE last_insights_surfaced
         IN  /\ Len(conversation_history) < MaxTurns
             /\ conversation_history' = history
             /\ active_entities' = entities
             /\ last_insights_surfaced' = surfaced
             /\ out' = [op |-> "chat", key |-> user_input, now |-> now,
                        mode |-> "normal", surfaced |-> surface,
                        raw_insights |-> IF surface THEN insights ELSE EmptyTiers,
                        conversation_state |->
                            ConversationSummary(entities, history, surfaced)]
             /\ UNCHANGED <<poolVars, table, latest>>

NextChat ==
    \/ \E id \in ChatIdSet : \E insight \in FullInsights(id) :
          \E eo \in Orders(insight.entities), to \in Orders(insight.themes) :
             FullAddInsight(insight, eo, to)
    \/ \E user_input \in ChatInputs, now \in Nows : Chat(user_input, now)

SpecChat == InitFull /\ [][NextChat]_vars

====
